---- MODULE Spec2Model ----
(***************************************************************************)
(* Multi-Agent Interview Coach: the session orchestrator                   *)
(* (app/interview/session.py), the interview state (app/schemas/           *)
(* interview.py) and the Observer / Interviewer agents (app/agents) as a   *)
(* state machine.  One process_message call is split at its two awaits:    *)
(* ProcessBegin .. ObserverReturn .. InterviewerReturn.                    *)
(***************************************************************************)
EXTENDS Integers, Sequences, FiniteSets, TLC

\* The largest InterviewConfig.max_turns a modelled session is given
\* (the schema allows 1..100).
MaxTurns == 3

\* How many times the task running process_message is cancelled in a session.
MaxCancellations == 1

\* Python None, for optional strings.
NoneVal == "None"

\* DifficultyLevel(int, Enum)
BASIC == 1
INTERMEDIATE == 2
ADVANCED == 3
EXPERT == 4
DifficultyLevel == BASIC..EXPERT

GradeLevel == {"Intern", "Junior", "Middle", "Senior", "Lead"}

ResponseType ==
    {"normal", "hallucination", "off_topic", "question",
     "stop_command", "introduction", "incomplete", "excellent"}

AnswerQuality == {"excellent", "good", "acceptable", "poor", "wrong"}

----------------------------------------------------------------------------
(* Inputs of the environment: candidate messages, LM texts, LM records.    *)

\* Candidate messages: one holding a stop token, one plain answer.
Msgs == {"stop", "ans"}

\* Texts the LM returns for an Interviewer utterance.
LMTexts == {"q1"}

\* Texts the LM returns for the greeting.
LMGreetings == {"hello"}

FALLBACK_GREETING == "fallback_greeting"
FALLBACK_HALLUCINATION == "fallback_hallucination"
FALLBACK_QUESTION == "fallback_question"
FALLBACK_DEFAULT == "fallback_default"

\* extracted_info objects the LM may return (raw dict, before parsing).
NoExtracted ==
    [name |-> NoneVal, position |-> NoneVal, grade |-> NoneVal,
     experience |-> NoneVal, technologies |-> <<>>]

ExtractedDicts ==
    {[NoExtracted EXCEPT !.name = "Ann", !.grade = "Lead",
                         !.technologies = <<"py", "py">>],
     [NoExtracted EXCEPT !.name = "Bob", !.position = "dev",
                         !.grade = "guru", !.experience = "5y",
                         !.technologies = <<"go", "py">>]}

\* (should_simplify, should_increase_difficulty) pairs.
FlagPairs == {<<FALSE, FALSE>>, <<FALSE, TRUE>>, <<TRUE, FALSE>>, <<TRUE, TRUE>>}

LMRecord(t, q, fc, topics, flags, ex, ans, gib) ==
    [response_type |-> t, quality |-> q, is_factually_correct |-> fc,
     detected_topics |-> topics, should_simplify |-> flags[1],
     should_increase_difficulty |-> flags[2], correct_answer |-> "ca",
     extracted_info |-> ex, answered_last_question |-> ans,
     is_gibberish |-> gib]

\* Technical answers: right or wrong, of good or wrong quality, under
\* every flag pair.
AnswerRecords ==
    {LMRecord("normal", q, fc, <<"SQL", "GIL", "SQL">>, flags, NoExtracted,
              "true", FALSE) :
        q \in {"good", "wrong"}, fc \in BOOLEAN, flags \in FlagPairs}

\* Replies that carry candidate info: an introduction or a stop command.
InfoRecords ==
    {LMRecord(t, "acceptable", TRUE, <<>>, <<FALSE, TRUE>>, ex, "absent",
              FALSE) :
        t \in {"introduction", "stop_command"}, ex \in ExtractedDicts}

\* Replies that leave the anchor open: role reversal, off-topic and
\* hallucination beside the question, with and without the gibberish mark.
AnchorRecords ==
    {LMRecord(t, "wrong", fc, <<>>, <<FALSE, inc>>, NoExtracted, "false",
              gib) :
        t \in {"question", "off_topic", "hallucination"},
        fc \in BOOLEAN, inc \in BOOLEAN, gib \in BOOLEAN}

\* JSON objects complete_json may hand to the Observer.
LMRecords == AnswerRecords \cup InfoRecords \cup AnchorRecords

----------------------------------------------------------------------------
(* Sentinels for "no value yet".                                           *)

NoState == [none |-> TRUE]
NoInfo == [none |-> TRUE]
NoAnalysis == [none |-> TRUE]
NoSaved == [none |-> TRUE]
NoResponse == [none |-> TRUE]
NoCall == [observer |-> "none", interviewer |-> "none"]
NoReturn == [op |-> "none", kind |-> "none", message |-> "", done |-> FALSE]

----------------------------------------------------------------------------
(* Transcript & state model (schemas/interview.py).                        *)

CandidateInfo ==
    [name |-> NoneVal, position |-> NoneVal, target_grade |-> NoneVal,
     experience |-> NoneVal, technologies |-> <<>>]

InterviewTurn(turn_id, agent_visible_message) ==
    [turn_id |-> turn_id, agent_visible_message |-> agent_visible_message,
     user_message |-> NoneVal, internal_thoughts |-> <<>>]

InterviewState ==
    [candidate |-> CandidateInfo, turns |-> <<>>, current_turn |-> 0,
     current_difficulty |-> BASIC, covered_topics |-> <<>>,
     confirmed_skills |-> <<>>, knowledge_gaps |-> <<>>, is_active |-> TRUE,
     consecutive_good_answers |-> 0, consecutive_bad_answers |-> 0]

InSeq(x, s) == \E i \in 1..Len(s) : s[i] = x

\* Python truthiness of an optional string.
Truthy(v) == v # NoneVal /\ v # ""

\* add_turn that appends without advancing current_turn.
add_turn_no_increment(s, turn) ==
    [s EXCEPT !.turns = Append(@, turn)]

add_turn(s, turn) ==
    [s EXCEPT !.turns = Append(@, turn), !.current_turn = @ + 1]

\* A step up that skips a level.
StepUp_two_levels(d) == IF d < EXPERT - 1 THEN d + 2 ELSE EXPERT

\* if current_difficulty.value < EXPERT.value: DifficultyLevel(value + 1)
StepUp(d) == IF d < EXPERT THEN d + 1 ELSE d

\* if current_difficulty.value > BASIC.value: DifficultyLevel(value - 1)
StepDown(d) == IF d > BASIC THEN d - 1 ELSE d

\* adjust_difficulty that tests should_simplify before
\* should_increase_difficulty.
adjust_difficulty_simplify_first(s, a) ==
    IF a.should_simplify
    THEN LET bad == s.consecutive_bad_answers + 1 IN
         IF bad >= 2
         THEN [s EXCEPT !.consecutive_good_answers = 0,
                        !.consecutive_bad_answers = 0,
                        !.current_difficulty = StepDown(@)]
         ELSE [s EXCEPT !.consecutive_good_answers = 0,
                        !.consecutive_bad_answers = bad]
    ELSE IF a.should_increase_difficulty
    THEN LET good == s.consecutive_good_answers + 1 IN
         IF good >= 2
         THEN [s EXCEPT !.consecutive_bad_answers = 0,
                        !.consecutive_good_answers = 0,
                        !.current_difficulty = StepUp(@)]
         ELSE [s EXCEPT !.consecutive_bad_answers = 0,
                        !.consecutive_good_answers = good]
    ELSE [s EXCEPT !.consecutive_good_answers = 0,
                   !.consecutive_bad_answers = 0]

\* adjust_difficulty that resets a streak only when the level can move.
adjust_difficulty_keeps_streak_at_limit(s, a) ==
    IF a.should_increase_difficulty
    THEN LET good == s.consecutive_good_answers + 1 IN
         IF good >= 2 /\ s.current_difficulty < EXPERT
         THEN [s EXCEPT !.consecutive_bad_answers = 0,
                        !.consecutive_good_answers = 0,
                        !.current_difficulty = StepUp(@)]
         ELSE [s EXCEPT !.consecutive_bad_answers = 0,
                        !.consecutive_good_answers = good]
    ELSE IF a.should_simplify
    THEN LET bad == s.consecutive_bad_answers + 1 IN
         IF bad >= 2 /\ s.current_difficulty > BASIC
         THEN [s EXCEPT !.consecutive_good_answers = 0,
                        !.consecutive_bad_answers = 0,
                        !.current_difficulty = StepDown(@)]
         ELSE [s EXCEPT !.consecutive_good_answers = 0,
                        !.consecutive_bad_answers = bad]
    ELSE [s EXCEPT !.consecutive_good_answers = 0,
                   !.consecutive_bad_answers = 0]

adjust_difficulty(s, a) ==
    IF a.should_increase_difficulty
    THEN LET good == s.consecutive_good_answers + 1 IN
         IF good >= 2
         THEN [s EXCEPT !.consecutive_bad_answers = 0,
                        !.consecutive_good_answers = 0,
                        !.current_difficulty = StepUp(@)]
         ELSE [s EXCEPT !.consecutive_bad_answers = 0,
                        !.consecutive_good_answers = good]
    ELSE IF a.should_simplify
    THEN LET bad == s.consecutive_bad_answers + 1 IN
         IF bad >= 2
         THEN [s EXCEPT !.consecutive_good_answers = 0,
                        !.consecutive_bad_answers = 0,
                        !.current_difficulty = StepDown(@)]
         ELSE [s EXCEPT !.consecutive_good_answers = 0,
                        !.consecutive_bad_answers = bad]
    ELSE [s EXCEPT !.consecutive_good_answers = 0,
                   !.consecutive_bad_answers = 0]

----------------------------------------------------------------------------
(* Observer agent (agents/observer.py).                                    *)

\* ResponseType(response.get("response_type", "normal")), ValueError -> NORMAL
ParseResponseType(v) == IF v \in ResponseType THEN v ELSE "normal"

\* AnswerQuality(response.get("quality", "acceptable")), ValueError -> ACCEPTABLE
ParseQuality(v) == IF v \in AnswerQuality THEN v ELSE "acceptable"

\* The extracted_info branch of _parse_analysis.
ParseExtractedInfo(d) ==
    IF Truthy(d.name) \/ Truthy(d.position) \/ Truthy(d.grade)
       \/ Truthy(d.experience)
    THEN d
    ELSE IF d.technologies # <<>>
    THEN [NoExtracted EXCEPT !.technologies = d.technologies]
    ELSE NoInfo

\* ObserverAgent._parse_analysis: the keys it reads with response.get;
\* answered_last_question is not passed to ObserverAnalysis and keeps the
\* schema default (True).
_parse_analysis(r) ==
    [response_type |-> ParseResponseType(r.response_type),
     quality |-> ParseQuality(r.quality),
     is_factually_correct |-> r.is_factually_correct,
     detected_topics |-> r.detected_topics,
     thoughts |-> <<"Observer">>,
     should_simplify |-> r.should_simplify,
     should_increase_difficulty |-> r.should_increase_difficulty,
     correct_answer |-> r.correct_answer,
     extracted_info |-> ParseExtractedInfo(r.extracted_info),
     answered_last_question |-> TRUE]

\* any(cmd in lower_msg for cmd in [stop tokens])
ContainsStopToken(m) == m \in {"stop"}

\* "?" in user_message
ContainsQuestionMark(m) == m \in {"why?"}

_create_fallback_analysis(m) ==
    [response_type |->
        IF ContainsStopToken(m) THEN "stop_command"
        ELSE IF ContainsQuestionMark(m) THEN "question" ELSE "normal",
     quality |-> "acceptable",
     is_factually_correct |-> TRUE,
     detected_topics |-> <<>>,
     thoughts |-> <<"Observer">>,
     should_simplify |-> FALSE,
     should_increase_difficulty |-> FALSE,
     correct_answer |-> NoneVal,
     extracted_info |-> NoInfo,
     answered_last_question |-> TRUE]

----------------------------------------------------------------------------
(* Interviewer agent (agents/interviewer.py).                              *)

_generate_fallback_response(a) ==
    IF a.response_type = "hallucination" THEN FALLBACK_HALLUCINATION
    ELSE IF a.response_type = "question" THEN FALLBACK_QUESTION
    ELSE FALLBACK_DEFAULT

\* thoughts = list(analysis.thoughts) + [interviewer_thought]
InterviewerThoughts(a) == Append(a.thoughts, "Interviewer")

\* What InterviewerAgent.process returns when the LM call ends with
\* `outcome`: the stripped LM text, or the fallback text after an
\* LLMClientError / Exception caught around the LM call.
InterviewerProcess(a, outcome, text) ==
    [response |-> IF outcome = "ok" THEN text
                  ELSE _generate_fallback_response(a),
     thoughts |-> InterviewerThoughts(a)]

----------------------------------------------------------------------------
(* Session orchestrator helpers (interview/session.py).                    *)

\* str.lower() on the grade, clarity and recommendation strings of the model.
Lower(g) ==
    CASE g = "Intern" -> "intern"
      [] g = "Junior" -> "junior"
      [] g = "Middle" -> "middle"
      [] g = "Senior" -> "senior"
      [] g = "Lead" -> "lead"
      [] g = "Excellent" -> "excellent"
      [] g = "Good" -> "good"
      [] g = "Average" -> "average"
      [] g = "Poor" -> "poor"
      [] g = "Strong Hire" -> "strong hire"
      [] g = "Hire" -> "hire"
      [] g = "No Hire" -> "no hire"
      [] OTHER -> g

_parse_grade(grade_str) ==
    LET g == Lower(grade_str) IN
    CASE g = "intern" -> "Intern"
      [] g = "junior" -> "Junior"
      [] g = "middle" -> "Middle"
      [] g = "senior" -> "Senior"
      [] g = "lead" -> "Lead"
      [] OTHER -> "Junior"

\* An initial difficulty that starts a Lead one level too low.
_get_initial_difficulty_lead_advanced(grade) ==
    CASE grade = "Intern" -> BASIC
      [] grade = "Junior" -> BASIC
      [] grade = "Middle" -> INTERMEDIATE
      [] grade = "Senior" -> ADVANCED
      [] grade = "Lead" -> ADVANCED
      [] OTHER -> BASIC

_get_initial_difficulty(grade) ==
    CASE grade = "Intern" -> BASIC
      [] grade = "Junior" -> BASIC
      [] grade = "Middle" -> INTERMEDIATE
      [] grade = "Senior" -> ADVANCED
      [] grade = "Lead" -> EXPERT
      [] OTHER -> BASIC

\* An append that skips the membership test.
AppendIfAbsent_always(list, x) == Append(list, x)

\* if x not in list: list.append(x)
AppendIfAbsent(list, x) == IF InSeq(x, list) THEN list ELSE Append(list, x)

\* for tech in extracted.technologies: append when truthy and not present
RECURSIVE AppendTechnologies(_, _)
AppendTechnologies(technologies, extracted) ==
    IF extracted = <<>> THEN technologies
    ELSE LET tech == Head(extracted) IN
         AppendTechnologies(
            IF tech # "" THEN AppendIfAbsent(technologies, tech)
            ELSE technologies,
            Tail(extracted))

\* An update that overwrites a field already set.
SetIfUnset_overwrite(current, extracted) ==
    IF Truthy(extracted) THEN extracted ELSE current

\* if extracted.<field> and not self._state.candidate.<field>: set it
SetIfUnset(current, extracted) ==
    IF Truthy(extracted) /\ ~Truthy(current) THEN extracted ELSE current

\* An update that replaces the technology list by the extracted one.
_update_candidate_info_replaces_technologies(s, extracted) ==
    LET c == s.candidate
        setGrade == Truthy(extracted.grade) /\ ~Truthy(c.target_grade)
        grade == _parse_grade(extracted.grade)
    IN [s EXCEPT
          !.candidate =
             [name |-> SetIfUnset(c.name, extracted.name),
              position |-> SetIfUnset(c.position, extracted.position),
              target_grade |-> IF setGrade THEN grade ELSE c.target_grade,
              experience |-> SetIfUnset(c.experience, extracted.experience),
              technologies |->
                 IF extracted.technologies # <<>>
                 THEN extracted.technologies ELSE c.technologies],
          !.current_difficulty =
             IF setGrade THEN _get_initial_difficulty(grade) ELSE @]

_update_candidate_info(s, extracted) ==
    LET c == s.candidate
        setGrade == Truthy(extracted.grade) /\ ~Truthy(c.target_grade)
        grade == _parse_grade(extracted.grade)
    IN [s EXCEPT
          !.candidate =
             [name |-> SetIfUnset(c.name, extracted.name),
              position |-> SetIfUnset(c.position, extracted.position),
              target_grade |-> IF setGrade THEN grade ELSE c.target_grade,
              experience |-> SetIfUnset(c.experience, extracted.experience),
              technologies |->
                 AppendTechnologies(c.technologies, extracted.technologies)],
          !.current_difficulty =
             IF setGrade THEN _get_initial_difficulty(grade) ELSE @]

\* for topic in topics: append to the list when not present
RECURSIVE AppendTopics(_, _)
AppendTopics(list, topics) ==
    IF topics = <<>> THEN list
    ELSE AppendTopics(AppendIfAbsent(list, Head(topics)), Tail(topics))

\* A gap condition that counts every answer below Good.
IsKnowledgeGap_below_good(a) ==
    ~a.is_factually_correct \/ a.quality \notin {"excellent", "good"}

\* The knowledge-gap condition of _update_state_from_analysis (the code
\* reaches it only when answered_last_question holds).
IsKnowledgeGap(a) == ~a.is_factually_correct \/ a.quality = "wrong"

\* The gap dict; user_message[:200] keeps the model's short messages whole.
KnowledgeGap(a, m) ==
    [topic |-> IF a.detected_topics # <<>> THEN a.detected_topics
               ELSE <<"General">>,
     user_answer |-> m,
     correct_answer |-> a.correct_answer]

\* A state update that confirms skills on answer quality alone, without
\* testing is_factually_correct.
_update_state_from_analysis_quality_only(s, a, m) ==
    LET s1 == [s EXCEPT !.covered_topics = AppendTopics(@, a.detected_topics)]
    IN  IF ~a.answered_last_question THEN s1
        ELSE LET s2 == IF a.quality \in {"excellent", "good"}
                       THEN [s1 EXCEPT !.confirmed_skills =
                                AppendTopics(@, a.detected_topics)]
                       ELSE s1
             IN  IF IsKnowledgeGap(a)
                 THEN [s2 EXCEPT !.knowledge_gaps =
                          Append(@, KnowledgeGap(a, m))]
                 ELSE s2

_update_state_from_analysis(s, a, m) ==
    LET s1 == [s EXCEPT !.covered_topics = AppendTopics(@, a.detected_topics)]
    IN  IF ~a.answered_last_question THEN s1
        ELSE LET s2 == IF a.quality \in {"excellent", "good"}
                          /\ a.is_factually_correct
                       THEN [s1 EXCEPT !.confirmed_skills =
                                AppendTopics(@, a.detected_topics)]
                       ELSE s1
             IN  IF IsKnowledgeGap(a)
                 THEN [s2 EXCEPT !.knowledge_gaps =
                          Append(@, KnowledgeGap(a, m))]
                 ELSE s2

\* self._state.turns[-1].user_message = user_message
AttachUserMessage(s, m) ==
    IF s.turns # <<>> THEN [s EXCEPT !.turns[Len(s.turns)].user_message = m]
    ELSE s

\* self._state.turns[-1].internal_thoughts = thoughts
SetTailThoughts(s, thoughts) ==
    IF s.turns # <<>>
    THEN [s EXCEPT !.turns[Len(s.turns)].internal_thoughts = thoughts]
    ELSE s

\* saved_difficulty, saved_good_streak, saved_bad_streak
Snapshot(s) ==
    [difficulty |-> s.current_difficulty,
     good_streak |-> s.consecutive_good_answers,
     bad_streak |-> s.consecutive_bad_answers]

\* A rollback that forgets the bad streak.
Rollback_good_streak_only(s, sv) ==
    [s EXCEPT !.current_difficulty = sv.difficulty,
              !.consecutive_good_answers = sv.good_streak]

\* A rollback that forgets the difficulty.
Rollback_counters_only(s, sv) ==
    [s EXCEPT !.consecutive_good_answers = sv.good_streak,
              !.consecutive_bad_answers = sv.bad_streak]

\* The rollback in the except branch around the Interviewer call.
Rollback(s, sv) ==
    [s EXCEPT !.current_difficulty = sv.difficulty,
              !.consecutive_good_answers = sv.good_streak,
              !.consecutive_bad_answers = sv.bad_streak]

\* Stage 4: adjust only when the candidate answered the last question.
ApplyDifficultyStage(s, a) ==
    IF a.answered_last_question THEN adjust_difficulty(s, a) ELSE s

\* Stage 2: if analysis.extracted_info: self._update_candidate_info(...)
CandidateStage(s, a) ==
    IF a.extracted_info # NoInfo
    THEN _update_candidate_info(s, a.extracted_info) ELSE s

\* A stop stage that leaves the session active.
StopStage_stays_active(s, a) == SetTailThoughts(s, a.thoughts)

\* Stage 3: record the Observer's thoughts on the tail turn, deactivate.
StopStage(s, a) ==
    [SetTailThoughts(s, a.thoughts) EXCEPT !.is_active = FALSE]

\* A commit whose new turn holds the default fallback utterance instead of
\* the utterance returned to the candidate.
Commit_turn_holds_fallback(s, a, m, out) ==
    LET s1 == _update_state_from_analysis(s, a, m)
        s2 == SetTailThoughts(s1, out.thoughts)
    IN  add_turn(s2, InterviewTurn(s2.current_turn + 1, FALLBACK_DEFAULT))

\* Stage 6: commit after a successful Interviewer call.
Commit(s, a, m, out) ==
    LET s1 == _update_state_from_analysis(s, a, m)
        s2 == SetTailThoughts(s1, out.thoughts)
    IN  add_turn(s2, InterviewTurn(s2.current_turn + 1, out.response))

----------------------------------------------------------------------------
(* State of one InterviewSession.                                          *)

VARIABLES
    max_turns,           \* self._config.max_turns, fixed at construction
    state,               \* self._state: NoState (None) or an InterviewState
    last_agent_message,  \* self._last_agent_message
    pc,                  \* where process_message is: idle, observer, interviewer
    user_message,        \* the argument of the process_message call under way
    analysis,            \* local `analysis` of process_message
    saved,               \* locals saved_difficulty / saved_*_streak
    response,            \* the JSON object the Observer got from complete_json
    call,                \* how the agents' LM calls of the latest call ended
    pre,                 \* self._state when the latest process_message began
    ret,                 \* what the latest operation returned
    cancellations,       \* cancellations of process_message so far
    gw,                  \* an LLMClient and the agent call running on it
    ev,                  \* an EvaluatorAgent.process call
    pr,                  \* a call of extract_json_from_llm_response
    ss,                  \* two sessions of one process
    fn                   \* one application of a pure function of the program

vars ==
    <<max_turns, state, last_agent_message, pc, user_message, analysis, saved, response,
      call, pre, ret, cancellations, gw, ev, pr, ss, fn>>

\* The variables of the components modelled apart from process_message.
auxVars == <<gw, ev, pr, ss, fn>>

sessionVars ==
    <<max_turns, state, last_agent_message, pc, user_message, analysis, saved, response,
      call, pre, ret, cancellations>>

\* An LLMClient nobody looks at.
NoGateway == [none |-> TRUE]
NoEvaluator == [none |-> TRUE]
NoParser == [none |-> TRUE]
NoSessions == [none |-> TRUE]
NoApplication == [none |-> TRUE]

Return(op, kind, message, done) ==
    [op |-> op, kind |-> kind, message |-> message, done |-> done]

Init ==
    /\ max_turns \in 1..MaxTurns
    /\ state = NoState
    /\ last_agent_message = ""
    /\ pc = "idle"
    /\ user_message = NoneVal
    /\ analysis = NoAnalysis
    /\ saved = NoSaved
    /\ response = NoResponse
    /\ call = NoCall
    /\ pre = NoState
    /\ ret = NoReturn
    /\ cancellations = 0
    /\ gw = NoGateway
    /\ ev = NoEvaluator
    /\ pr = NoParser
    /\ ss = NoSessions
    /\ fn = NoApplication

\* InterviewSession.start; generate_greeting returns the LM text or, when
\* the LM call fails, the fixed greeting.  The UI starts a session once,
\* right after creating it.
Start ==
    /\ state = NoState
    /\ pc = "idle"
    /\ \E greeting \in LMGreetings \cup {FALLBACK_GREETING} :
          /\ last_agent_message' = greeting
          /\ state' = add_turn(InterviewState, InterviewTurn(1, greeting))
          /\ ret' = Return("start", "greeting", greeting, FALSE)
    /\ UNCHANGED <<max_turns, pc, user_message, analysis, saved, response, call,
                   pre>>
    /\ UNCHANGED cancellations
    /\ UNCHANGED auxVars

\* process_message before start: raise ValueError.
ProcessNotStarted ==
    /\ state = NoState
    /\ pc = "idle"
    /\ ret' = Return("process", "ValueError", "", FALSE)
    /\ UNCHANGED <<max_turns, state, last_agent_message, pc, user_message,
                   analysis, saved, response, call, pre>>
    /\ UNCHANGED cancellations
    /\ UNCHANGED auxVars

\* A process_message that attaches the message before testing is_active.
ProcessInactive_attaches_first ==
    /\ state # NoState
    /\ pc = "idle"
    /\ ~state.is_active
    /\ \E m \in Msgs :
          /\ user_message' = m
          /\ state' = AttachUserMessage(state, m)
    /\ pre' = state
    /\ analysis' = NoAnalysis
    /\ saved' = NoSaved
    /\ response' = NoResponse
    /\ call' = NoCall
    /\ ret' = Return("process", "finished", "", TRUE)
    /\ UNCHANGED <<max_turns, last_agent_message, pc, cancellations>>
    /\ UNCHANGED auxVars

\* process_message on a finished interview: return ("finished", True).
ProcessInactive ==
    /\ state # NoState
    /\ pc = "idle"
    /\ ~state.is_active
    /\ \E m \in Msgs : user_message' = m
    /\ pre' = state
    /\ analysis' = NoAnalysis
    /\ saved' = NoSaved
    /\ response' = NoResponse
    /\ call' = NoCall
    /\ ret' = Return("process", "finished", "", TRUE)
    /\ UNCHANGED <<max_turns, state, last_agent_message, pc>>
    /\ UNCHANGED cancellations
    /\ UNCHANGED auxVars

\* process_message up to the await of the Observer: attach the message.
ProcessBegin ==
    /\ state # NoState
    /\ pc = "idle"
    /\ state.is_active
    /\ \E m \in Msgs :
          /\ user_message' = m
          /\ state' = AttachUserMessage(state, m)
    /\ pre' = state
    /\ analysis' = NoAnalysis
    /\ saved' = NoSaved
    /\ response' = NoResponse
    /\ call' = NoCall
    /\ ret' = NoReturn
    /\ pc' = "observer"
    /\ UNCHANGED <<max_turns, last_agent_message>>
    /\ UNCHANGED cancellations
    /\ UNCHANGED auxVars

\* Stages 2-4 once the Observer has returned analysis `a`.
AfterObserver(a) ==
    LET s1 == CandidateStage(state, a) IN
    /\ analysis' = a
    /\ IF a.response_type = "stop_command"
       THEN /\ state' = StopStage(s1, a)
            /\ saved' = NoSaved
            /\ ret' = Return("process", "stop_ack", "", TRUE)
            /\ pc' = "idle"
       ELSE /\ saved' = Snapshot(s1)
            /\ state' = ApplyDifficultyStage(s1, a)
            /\ ret' = NoReturn
            /\ pc' = "interviewer"
    /\ UNCHANGED <<max_turns, last_agent_message, user_message, pre>>
    /\ UNCHANGED cancellations
    /\ UNCHANGED auxVars

\* The Observer parsed a JSON object from the LM.
ObserverParsedFrom(records) ==
    /\ pc = "observer"
    /\ \E r \in records :
          /\ response' = r
          /\ call' = [call EXCEPT !.observer = "record"]
          /\ AfterObserver(_parse_analysis(r))

ObserverParsed == ObserverParsedFrom(LMRecords)

\* The Observer's complete_json raised LLMClientError, or the content did
\* not fit the schema: both except branches return the fallback analysis.
ObserverFallback ==
    /\ pc = "observer"
    /\ \E o \in {"gateway_error", "bad_content"} :
          call' = [call EXCEPT !.observer = o]
    /\ response' = NoResponse
    /\ AfterObserver(_create_fallback_analysis(user_message))

\* An exception leaves ObserverAgent.process: generic error, done = False.
ObserverRaised ==
    /\ pc = "observer"
    /\ call' = [call EXCEPT !.observer = "raised"]
    /\ ret' = Return("process", "observer_error", "", FALSE)
    /\ pc' = "idle"
    /\ UNCHANGED <<max_turns, state, last_agent_message, user_message,
                   analysis, saved, response, pre>>
    /\ UNCHANGED cancellations
    /\ UNCHANGED auxVars

\* A turn-limit test that lets current_turn pass max_turns by one.
AfterInterviewer_limit_exclusive(out) ==
    LET s1 == Commit(state, analysis, user_message, out) IN
    /\ last_agent_message' = out.response
    /\ IF s1.current_turn > max_turns
       THEN /\ state' = [s1 EXCEPT !.is_active = FALSE]
            /\ ret' = Return("process", "response_limit", out.response, TRUE)
       ELSE /\ state' = s1
            /\ ret' = Return("process", "response", out.response, FALSE)
    /\ pc' = "idle"
    /\ UNCHANGED <<max_turns, user_message, analysis, saved, response, pre>>
    /\ UNCHANGED cancellations
    /\ UNCHANGED auxVars

\* Stage 6 and the max_turns check, for what the Interviewer returned.
AfterInterviewer(out) ==
    LET s1 == Commit(state, analysis, user_message, out) IN
    /\ last_agent_message' = out.response
    /\ IF s1.current_turn >= max_turns
       THEN /\ state' = [s1 EXCEPT !.is_active = FALSE]
            /\ ret' = Return("process", "response_limit", out.response, TRUE)
       ELSE /\ state' = s1
            /\ ret' = Return("process", "response", out.response, FALSE)
    /\ pc' = "idle"
    /\ UNCHANGED <<max_turns, user_message, analysis, saved, response, pre>>
    /\ UNCHANGED cancellations
    /\ UNCHANGED auxVars

\* The Interviewer's LM call returned a text.
InterviewerAnswered ==
    /\ pc = "interviewer"
    /\ call' = [call EXCEPT !.interviewer = "ok"]
    /\ \E text \in LMTexts :
          AfterInterviewer(InterviewerProcess(analysis, "ok", text))

\* The Interviewer's LM call raised LLMClientError: the agent catches it
\* and returns its fallback utterance.
InterviewerFallback ==
    /\ pc = "interviewer"
    /\ call' = [call EXCEPT !.interviewer = "gateway_error"]
    /\ AfterInterviewer(InterviewerProcess(analysis, "gateway_error", ""))

\* An exception leaves InterviewerAgent.process: roll back, generic error.
InterviewerRaised ==
    /\ pc = "interviewer"
    /\ call' = [call EXCEPT !.interviewer = "raised"]
    /\ state' = Rollback(state, saved)
    /\ ret' = Return("process", "interviewer_error", "", FALSE)
    /\ pc' = "idle"
    /\ UNCHANGED <<max_turns, last_agent_message, user_message, analysis,
                   saved, response, pre>>
    /\ UNCHANGED cancellations
    /\ UNCHANGED auxVars

\* The task running process_message is cancelled while an agent's LM call is
\* in flight: asyncio.CancelledError is a BaseException, so neither the
\* agents' nor the session's `except Exception` branches catch it and
\* process_message is left where it was awaiting.
Cancelled ==
    /\ pc \in {"observer", "interviewer"}
    /\ cancellations < MaxCancellations
    /\ cancellations' = cancellations + 1
    /\ call' = IF pc = "observer"
               THEN [call EXCEPT !.observer = "cancelled"]
               ELSE [call EXCEPT !.interviewer = "cancelled"]
    /\ ret' = Return("process", "CancelledError", "", FALSE)
    /\ pc' = "idle"
    /\ UNCHANGED <<max_turns, state, last_agent_message, user_message,
                   analysis, saved, response, pre>>
    /\ UNCHANGED auxVars

Next ==
    \/ Start
    \/ ProcessNotStarted
    \/ ProcessInactive
    \/ ProcessBegin
    \/ ObserverParsed
    \/ ObserverFallback
    \/ ObserverRaised
    \/ InterviewerAnswered
    \/ InterviewerFallback
    \/ InterviewerRaised
    \/ Cancelled

Spec == Init /\ [][Next]_vars

\* The records of the sessions followed to their end: an answer that asks
\* for a harder question, an answer that asks for an easier one, an
\* introduction that declares a grade, a stop command and a counter
\* question.
FairRecords ==
    {r \in AnswerRecords :
        /\ r.quality = "good" <=> r.is_factually_correct
        /\ r.should_simplify # r.should_increase_difficulty}
    \cup {r \in InfoRecords : r.extracted_info.grade = "Lead"}
    \cup {r \in AnchorRecords :
            /\ r.response_type = "question" /\ ~r.is_gibberish
            /\ r.is_factually_correct /\ ~r.should_increase_difficulty}

NextFair ==
    \/ Start
    \/ ProcessNotStarted
    \/ ProcessInactive
    \/ ProcessBegin
    \/ ObserverParsedFrom(FairRecords)
    \/ ObserverFallback
    \/ ObserverRaised
    \/ InterviewerAnswered
    \/ InterviewerFallback
    \/ InterviewerRaised
    \/ Cancelled

\* The session under a candidate who goes on: the UI starts the session,
\* the candidate keeps sending messages, and an Observer call and an
\* Interviewer call that can be tried again and again eventually return
\* (from the LM or from the agent's fallback) instead of raising or being
\* cancelled.
FairSpec ==
    /\ Init /\ [][NextFair]_vars
    /\ WF_vars(Start)
    /\ WF_vars(ProcessBegin)
    /\ SF_vars(ObserverParsedFrom(FairRecords) \/ ObserverFallback)
    /\ SF_vars(InterviewerAnswered \/ InterviewerFallback)

----------------------------------------------------------------------------
(* LLM gateway (llm/client.py): one LLMClient, the retry loop of complete, *)
(* complete_json and its cached json-mode flag, driven by the two agent    *)
(* calls that use it first: the greeting of start() (complete) and the     *)
(* Observer's analysis (complete_json).  Times are counted in half seconds.*)

\* The largest LITELLM_MAX_RETRIES a modelled client is given.
MaxRetries == 7

\* The largest generation_retries the Observer's SingleAgentConfig is given.
MaxGenerationRetries == 2

\* How many agent calls are made on one client.
MaxAgentCalls == 3

\* 0.5 s, in half seconds.
_RETRY_BACKOFF_BASE == 1

\* 30.0 s, in half seconds.
_RETRY_BACKOFF_MAX == 60

_RETRYABLE_HTTP_CODES == {429, 500, 502, 503, 504}

\* A text is modelled by the set of the substrings it holds among those
\* _is_json_mode_unsupported_error looks for (after lower()).
Bodies == {{}, {"response_format"}, {"json_object"}}

\* choices[0].message.content of a 200 response: valid JSON or not.
Contents ==
    {[json |-> TRUE, mentions |-> {}],
     [json |-> FALSE, mentions |-> {}],
     [json |-> FALSE, mentions |-> {"response_format"}]}

\* How one POST /v1/chat/completions ends.
AttemptOutcomes ==
    {[kind |-> "ok", content |-> c] : c \in Contents}
    \cup {[kind |-> "http", status |-> st, body |-> b] :
             st \in _RETRYABLE_HTTP_CODES \cup {400, 422}, b \in Bodies}
    \cup {[kind |-> "timeout"], [kind |-> "request_error"],
          [kind |-> "invalid_format"]}

NoError == [raised |-> FALSE]

\* raise LLMClientError(message); `text` is what str(e) holds.
LLMClientError(kind, status, body, text) ==
    [raised |-> TRUE, kind |-> kind, status |-> status, body |-> body,
     text |-> text]

\* f"HTTP error {status_code}: {response_body}"
HttpErrorText(status, body) ==
    (IF status = 400 THEN {"400"} ELSE {}) \cup body

_compute_retry_delay_uncapped(attempt) == _RETRY_BACKOFF_BASE * 2^attempt

_compute_retry_delay(attempt) ==
    IF _RETRY_BACKOFF_BASE * 2^attempt < _RETRY_BACKOFF_MAX
    THEN _RETRY_BACKOFF_BASE * 2^attempt ELSE _RETRY_BACKOFF_MAX

_is_json_mode_unsupported_error(error_text) ==
    \/ "response_format" \in error_text
    \/ "json_object" \in error_text
          /\ ("400" \in error_text \/ "bad" \in error_text)

\* A retry test that also retries client errors.
IsRetryableStatus_every_status(status) == TRUE

\* if status_code in _RETRYABLE_HTTP_CODES
IsRetryableStatus(status) == status \in _RETRYABLE_HTTP_CODES

\* The except branches of complete that end in `continue`.
IsRetryable(o) ==
    \/ o.kind \in {"timeout", "request_error"}
    \/ o.kind = "http" /\ IsRetryableStatus(o.status)

\* A complete_json that probes whatever the flag says.
UsesProbe_always(flag) == TRUE

\* if self._json_mode_supported:
UsesProbe(flag) == flag

\* A fresh LLMClient (LLMClient.__init__) with the agents' configuration.
NewClient(api_key, max_retries, generation_retries) ==
    [api_key |-> api_key, max_retries |-> max_retries,
     generation_retries |-> generation_retries,
     json_mode_supported |-> TRUE, flip |-> NoError, flag_at_call |-> TRUE,
     calls |-> 0, op |-> "none", pc |-> "idle", json_mode |-> FALSE,
     attempt |-> 0, made |-> 0, slept |-> <<>>, outcome |-> [kind |-> "none"],
     error |-> NoError, sent |-> "none", lm_calls |-> 0, result |-> [kind |-> "none"]]

\* An agent starts a call on the client.
BeginOp(g, op) ==
    [g EXCEPT !.calls = @ + 1, !.op = op, !.lm_calls = 1, !.made = 0,
              !.flag_at_call = g.json_mode_supported,
              !.attempt = 0, !.slept = <<>>, !.outcome = [kind |-> "none"],
              !.error = NoError, !.sent = "none", !.result = [kind |-> "none"]]

\* complete up to its first request: _get_client raises without an API key.
BeginComplete(g, json_mode) ==
    IF g.api_key = ""
    THEN [g EXCEPT !.pc = "raised", !.json_mode = json_mode,
                   !.error = LLMClientError("no_api_key", 0, {}, {})]
    ELSE [g EXCEPT !.pc = "request", !.json_mode = json_mode, !.attempt = 0,
                   !.made = 0, !.slept = <<>>, !.error = NoError]

\* One iteration of `for attempt in range(self._max_retries + 1)`.
Attempt(g, o) ==
    LET g1 == [g EXCEPT !.made = @ + 1, !.outcome = o,
                        !.sent = IF g.json_mode THEN "json" ELSE "text"]
    IN  IF o.kind = "ok" THEN [g1 EXCEPT !.pc = "returned"]
        ELSE IF IsRetryable(o)
        THEN LET g2 == IF g.attempt < g.max_retries
                       THEN [g1 EXCEPT !.slept =
                                Append(@, _compute_retry_delay(g.attempt))]
                       ELSE g1
             IN  IF g.attempt + 1 <= g.max_retries
                 THEN [g2 EXCEPT !.attempt = @ + 1]
                 ELSE [g2 EXCEPT !.pc = "raised",
                          !.error = LLMClientError("max_retries", 0, {}, {})]
        ELSE IF o.kind = "http"
        THEN [g1 EXCEPT !.pc = "raised",
                 !.error = LLMClientError("http", o.status, o.body,
                                          HttpErrorText(o.status, o.body))]
        ELSE [g1 EXCEPT !.pc = "raised",
                 !.error = LLMClientError("invalid_format", 0, {}, {})]

\* generate_greeting once complete has returned or raised.
ResolveGreeting(g) ==
    [g EXCEPT !.pc = "idle",
              !.result = IF g.pc = "returned"
                         THEN [kind |-> "text"] ELSE [kind |-> "fallback"]]

\* complete_json and ObserverAgent.process once complete has returned or
\* raised: _extract_json_from_text, the except branch that clears the flag
\* and falls through to text mode, and the Observer's fallback.
ResolveObserver(g) ==
    LET err == IF g.pc = "raised" THEN g.error
               ELSE IF g.outcome.content.json THEN NoError
               ELSE LLMClientError("parse", 0, g.outcome.content.mentions,
                                   g.outcome.content.mentions)
    IN  IF ~err.raised
        THEN [g EXCEPT !.pc = "idle", !.result = [kind |-> "analysis"]]
        ELSE IF g.json_mode /\ _is_json_mode_unsupported_error(err.text)
        THEN BeginComplete([g EXCEPT !.json_mode_supported = FALSE,
                                     !.flip = err], FALSE)
        ELSE [g EXCEPT !.pc = "idle", !.error = err,
                       !.result = [kind |-> "fallback"]]

\* Control returns from complete to the agent that called it.
Resolve(g) ==
    IF g.pc = "request" THEN g
    ELSE IF g.op = "greeting" THEN ResolveGreeting(g)
    ELSE ResolveObserver(g)

\* start() returns once generate_greeting has: the greeting becomes turn 1.
StartReturned(g) == g.op = "greeting" /\ g.pc = "idle"

Greeting(g) == IF g.result.kind = "text" THEN "hello" ELSE FALLBACK_GREETING

\* The session side of a step of the client: start() appends turn 1 and
\* returns the greeting when generate_greeting is through.
GatewayStep(g, s) ==
    /\ gw' = g
    /\ IF StartReturned(g)
       THEN /\ state' = add_turn(s, InterviewTurn(1, Greeting(g)))
            /\ last_agent_message' = Greeting(g)
            /\ ret' = Return("start", "greeting", Greeting(g), FALSE)
       ELSE /\ state' = s
            /\ UNCHANGED <<last_agent_message, ret>>
    /\ UNCHANGED <<max_turns, pc, user_message, analysis, saved, response,
                   call, pre, cancellations>>
    /\ UNCHANGED <<ev, pr, ss, fn>>

\* A session that has not been started, with the largest turn limit.
SessionNotStarted ==
    /\ max_turns = MaxTurns
    /\ state = NoState
    /\ last_agent_message = ""
    /\ pc = "idle"
    /\ user_message = NoneVal
    /\ analysis = NoAnalysis
    /\ saved = NoSaved
    /\ response = NoResponse
    /\ call = NoCall
    /\ pre = NoState
    /\ ret = NoReturn
    /\ cancellations = 0

InitGateway ==
    /\ SessionNotStarted
    /\ \E api_key \in {"", "key"}, max_retries \in 0..MaxRetries,
          generation_retries \in 0..MaxGenerationRetries :
          gw = NewClient(api_key, max_retries, generation_retries)
    /\ ev = NoEvaluator
    /\ pr = NoParser
    /\ ss = NoSessions
    /\ fn = NoApplication

\* InterviewSession.start: create the state, await generate_greeting.
GatewayStart ==
    /\ state = NoState
    /\ gw.pc = "idle"
    /\ GatewayStep(Resolve(BeginComplete(BeginOp(gw, "greeting"), FALSE)),
                   InterviewState)

\* ObserverAgent.process: one complete_json call.
GatewayObserve ==
    /\ state # NoState
    /\ gw.pc = "idle"
    /\ gw.calls < MaxAgentCalls
    /\ GatewayStep(Resolve(BeginComplete(BeginOp(gw, "observer"),
                                         UsesProbe(gw.json_mode_supported))),
                   state)

\* A request answered with 200 and a content.
GatewayAttemptAnswered ==
    /\ gw.pc = "request"
    /\ \E o \in AttemptOutcomes :
          /\ o.kind = "ok"
          /\ GatewayStep(Resolve(Attempt(gw, o)), state)

\* A request that timed out, failed to connect or got an HTTP error status.
GatewayAttemptFailed ==
    /\ gw.pc = "request"
    /\ \E o \in AttemptOutcomes :
          /\ o.kind # "ok"
          /\ GatewayStep(Resolve(Attempt(gw, o)), state)

NextGateway ==
    \/ GatewayStart
    \/ GatewayObserve
    \/ GatewayAttemptAnswered
    \/ GatewayAttemptFailed

SpecGateway == InitGateway /\ [][NextGateway]_vars

----------------------------------------------------------------------------
(* Properties of process_message.                                          *)

\* The latest process_message call has returned.
Returned == pc = "idle" /\ ret.op = "process" /\ pre # NoState

\* The call returned an utterance (the Interviewer call did not raise).
Committed == Returned /\ ret.kind \in {"response", "response_limit"}

\* pre with `m` attached to its tail turn.
PreWithMessage(m) ==
    [pre EXCEPT !.turns = [pre.turns EXCEPT ![Len(pre.turns)].user_message = m]]

\* target_grade went from unset to set during the latest call.
GradeSetInCall ==
    ~Truthy(pre.candidate.target_grade) /\ Truthy(state.candidate.target_grade)

\* current_difficulty as the candidate-info update of the latest call left it.
DifficultyBeforeAdjustment ==
    IF GradeSetInCall
    THEN _get_initial_difficulty(state.candidate.target_grade)
    ELSE pre.current_difficulty

IsPrefix(s, t) == Len(s) <= Len(t) /\ \A i \in 1..Len(s) : s[i] = t[i]

\* Every candidate field set before the call kept its value; technologies
\* only grew.
CandidateAccreted ==
    /\ Truthy(pre.candidate.name) => state.candidate.name = pre.candidate.name
    /\ Truthy(pre.candidate.position) =>
          state.candidate.position = pre.candidate.position
    /\ Truthy(pre.candidate.target_grade) =>
          state.candidate.target_grade = pre.candidate.target_grade
    /\ Truthy(pre.candidate.experience) =>
          state.candidate.experience = pre.candidate.experience
    /\ IsPrefix(pre.candidate.technologies, state.candidate.technologies)
    /\ analysis.extracted_info = NoInfo => state.candidate = pre.candidate

Abs(n) == IF n < 0 THEN 0 - n ELSE n

\* C1 (as claimed): if the Interviewer call raises, the whole InterviewState
\* on return equals the state before the call, except that the tail turn's
\* user_message may have been set.
C1_WholeStateRestored ==
    (Returned /\ call.interviewer = "raised") =>
        (state = pre \/ state = PreWithMessage(user_message))

\* C1 (amended): if the Interviewer call raises, the state on return equals
\* the state before the call except for the tail turn's user_message, the
\* candidate fields accreted from the extracted info, and current_difficulty
\* when this call set target_grade (then it is that grade's initial level).
C1_RestoredUpToCandidateInfo ==
    (Returned /\ call.interviewer = "raised") =>
        /\ CandidateAccreted
        /\ state = [PreWithMessage(user_message) EXCEPT
                       !.candidate = state.candidate,
                       !.current_difficulty = DifficultyBeforeAdjustment]

\* C1 witness: the Interviewer raised in a call whose Analysis carried
\* extracted info that set the grade and moved the difficulty.
C1_Witness ==
    /\ Returned /\ call.interviewer = "raised"
    /\ analysis.extracted_info # NoInfo
    /\ GradeSetInCall
    /\ state.candidate.name # pre.candidate.name
    /\ state.current_difficulty # pre.current_difficulty

\* C2: if the Interviewer call raises, process returns the generic error
\* with done = false; both streak counters equal their pre-call values,
\* current_difficulty equals the value snapshotted right before this call's
\* adjustment, no turn is appended, and topics, skills, gaps and is_active
\* are unchanged.
C2_InterviewerFailureRollsBack ==
    (pc = "idle" /\ call.interviewer = "raised") =>
        /\ ret.kind = "interviewer_error" /\ ~ret.done
        /\ state.consecutive_good_answers = pre.consecutive_good_answers
        /\ state.consecutive_bad_answers = pre.consecutive_bad_answers
        /\ state.current_difficulty = DifficultyBeforeAdjustment
        /\ Len(state.turns) = Len(pre.turns)
        /\ state.current_turn = pre.current_turn
        /\ state.covered_topics = pre.covered_topics
        /\ state.confirmed_skills = pre.confirmed_skills
        /\ state.knowledge_gaps = pre.knowledge_gaps
        /\ state.is_active = pre.is_active

\* C2 witness: the rolled-back adjustment had moved the difficulty up under
\* the two-streak rule (scenario "Interviewer failure is atomic").
C2_Witness ==
    /\ pc = "idle" /\ call.interviewer = "raised"
    /\ pre.consecutive_good_answers = 1
    /\ analysis.should_increase_difficulty
    /\ saved.difficulty < EXPERT
    /\ state.current_difficulty = saved.difficulty
    /\ state.consecutive_good_answers = 1

\* C3 (as claimed): a gateway error of the Interviewer's LM call makes
\* process return the generic error with done = false, append no turn and
\* commit no topics, skills or gaps.
C3_GatewayErrorPropagates ==
    (pc = "idle" /\ call.interviewer = "gateway_error") =>
        /\ ret.kind = "interviewer_error" /\ ~ret.done
        /\ Len(state.turns) = Len(pre.turns)
        /\ state.covered_topics = pre.covered_topics
        /\ state.confirmed_skills = pre.confirmed_skills
        /\ state.knowledge_gaps = pre.knowledge_gaps

\* C4 (as claimed): a gateway error of the Observer's LM call makes process
\* return the generic error with done = false, changing nothing but the
\* tail turn's user_message and issuing no Interviewer call.
C4_ObserverErrorPropagates ==
    call.observer = "gateway_error" =>
        /\ pc = "idle"
        /\ ret.kind = "observer_error" /\ ~ret.done
        /\ state = PreWithMessage(user_message)
        /\ call.interviewer = "none"

\* turn_id values are 1..len(turns) in order and current_turn = len(turns).
TurnsNumbered(s) ==
    /\ \A i \in 1..Len(s.turns) : s.turns[i].turn_id = i
    /\ s.current_turn = Len(s.turns)

\* C5: in every reachable state the turn_id values are exactly 1..len(turns)
\* in list order and current_turn = len(turns); every step keeps the turns
\* already there, in place, and at most appends.
C5_TurnsAppendOnly ==
    [][ /\ state' # NoState => TurnsNumbered(state')
        /\ state # NoState =>
              /\ Len(state'.turns) >= Len(state.turns)
              /\ \A i \in 1..Len(state.turns) :
                    /\ state'.turns[i].turn_id = state.turns[i].turn_id
                    /\ state'.turns[i].agent_visible_message =
                          state.turns[i].agent_visible_message ]_vars

\* C5 witness: three turns after a failed call and two committed calls.
C5_Witness ==
    /\ state # NoState
    /\ Len(state.turns) = 3
    /\ state.turns[3].turn_id = 3
    /\ state.turns[1].user_message # NoneVal

\* C6 (as claimed): one process call changes current_difficulty by at most
\* one level, also when it sets the candidate's grade for the first time.
C6_OneStepPerCall ==
    Returned => Abs(state.current_difficulty - pre.current_difficulty) <= 1

\* C6 (amended): within one process call the difficulty adjustment moves
\* current_difficulty by at most one level from the value the candidate-info
\* update left: the pre-call level, or the initial level of the grade when
\* this call set target_grade.
C6_OneStepAfterGradeSeed ==
    (pre # NoState /\ state # NoState) =>
        Abs(state.current_difficulty - DifficultyBeforeAdjustment) <= 1

\* C6 witness: a committed call that set the grade and then stepped up.
C6_Witness ==
    /\ Committed
    /\ GradeSetInCall
    /\ state.current_difficulty = DifficultyBeforeAdjustment + 1
    /\ state.current_difficulty # pre.current_difficulty

\* C7 (as claimed): when the LM record says answered_last_question = false
\* and the Interviewer succeeds, difficulty and both streak counters keep
\* their values, no knowledge gap is added and current_turn grows by one.
C7_UnansweredLeavesDifficulty ==
    (Committed /\ call.observer = "record"
        /\ response.answered_last_question = "false") =>
        /\ state.current_difficulty = pre.current_difficulty
        /\ state.consecutive_good_answers = pre.consecutive_good_answers
        /\ state.consecutive_bad_answers = pre.consecutive_bad_answers
        /\ state.knowledge_gaps = pre.knowledge_gaps
        /\ state.current_turn = pre.current_turn + 1

\* C8 (as claimed): a call whose LM record is off_topic, question or
\* gibberish leaves knowledge_gaps unchanged, whatever is_factually_correct
\* and quality are.
C8_NoGapWithoutAttempt ==
    (Returned /\ call.observer = "record"
        /\ (response.response_type \in {"off_topic", "question"}
            \/ response.is_gibberish)) =>
        state.knowledge_gaps = pre.knowledge_gaps

StopClassified ==
    pc = "idle" /\ analysis # NoAnalysis /\ analysis.response_type = "stop_command"

\* What a stop command leaves alone whatever the extracted info.
StopFrame ==
    /\ ~state.is_active
    /\ ret.kind = "stop_ack" /\ ret.done
    /\ Len(state.turns) = Len(pre.turns)
    /\ state.current_turn = pre.current_turn
    /\ call.interviewer = "none"
    /\ state.consecutive_good_answers = pre.consecutive_good_answers
    /\ state.consecutive_bad_answers = pre.consecutive_bad_answers
    /\ state.covered_topics = pre.covered_topics
    /\ state.confirmed_skills = pre.confirmed_skills
    /\ state.knowledge_gaps = pre.knowledge_gaps

\* C10 (as claimed): on a stop command process sets is_active = false,
\* returns done = true, appends no turn, calls no Interviewer and leaves
\* current_difficulty, the counters, topics, skills and gaps unchanged.
C10_StopLeavesDifficulty ==
    StopClassified =>
        StopFrame /\ state.current_difficulty = pre.current_difficulty

\* C10 (amended): as claimed, except that current_difficulty is unchanged
\* only if the call did not set target_grade; a stop reply whose extracted
\* info sets target_grade leaves the grade's initial difficulty.
C10_StopShortCircuits ==
    StopClassified =>
        StopFrame /\ state.current_difficulty = DifficultyBeforeAdjustment

\* C10 witness: a stop command whose record also declared the grade.
C10_Witness ==
    /\ StopClassified
    /\ GradeSetInCall
    /\ state.current_difficulty # pre.current_difficulty
    /\ state.turns[Len(state.turns)].internal_thoughts = <<"Observer">>

\* C11: once is_active is false, every later process call returns
\* done = true, appends no turn, calls neither the Observer nor the
\* Interviewer, and changes no field of the state (the tail turn's
\* user_message included).
C11_InactiveSessionIsFrozen ==
    [][ (state # NoState /\ ~state.is_active) =>
            /\ state' = state
            /\ pc' = "idle"
            /\ call' = NoCall
            /\ ret'.op = "process" /\ ret'.done ]_vars

\* C11 witness: a session ended by a stop command was sent another message,
\* and the tail turn still holds the stop message.
C11_Witness ==
    /\ state # NoState /\ ~state.is_active
    /\ ret.kind = "finished"
    /\ user_message = "ans"
    /\ state.turns[Len(state.turns)].user_message = "stop"

\* C12 (as claimed): for every configured max_turns >= 1, len(turns)
\* (= current_turn) never exceeds max_turns.
C12_MaxTurnsHardStop ==
    state # NoState =>
        /\ Len(state.turns) <= max_turns
        /\ state.current_turn <= max_turns

\* What the spec derives for answered_last_question from an LM record: false
\* for gibberish, else the LM's boolean, else whether response_type is
\* outside {off_topic, question, stop_command}.
DerivedAnswered(r) ==
    IF r.is_gibberish THEN FALSE
    ELSE IF r.answered_last_question # "absent"
         THEN r.answered_last_question = "true"
         ELSE ParseResponseType(r.response_type)
                 \notin {"off_topic", "question", "stop_command"}

\* The Observer of the latest call parsed an LM record into `analysis`.
ParsedRecord ==
    call.observer = "record" /\ response # NoResponse /\ analysis # NoAnalysis

\* C13 (as claimed): an LM record with is_gibberish = true yields an Analysis
\* with answered_last_question = false, whatever its response_type and its
\* own answered_last_question value.
C13_GibberishIsUnanswered ==
    (ParsedRecord /\ response.is_gibberish) =>
        ~analysis.answered_last_question

\* C14 (as claimed): for an LM record that is not gibberish, the Analysis's
\* answered_last_question is the boolean the LM gave when present, and
\* otherwise (response_type not in {off_topic, question, stop_command}).
C14_AnsweredFollowsRecord ==
    (ParsedRecord /\ ~response.is_gibberish) =>
        analysis.answered_last_question = DerivedAnswered(response)

C16_StreaksExclusive ==
    state # NoState =>
        ~(state.consecutive_good_answers # 0 /\ state.consecutive_bad_answers # 0)

\* C16 witness: a rollback put back a good streak of 1 after the adjustment
\* had replaced it by a bad streak of 1.
C16_Witness ==
    /\ pc = "idle" /\ call.interviewer = "raised"
    /\ analysis.should_simplify /\ ~analysis.should_increase_difficulty
    /\ saved.good_streak = 1
    /\ state.consecutive_good_answers = 1
    /\ state.consecutive_bad_answers = 0

\* C17 (as claimed): no turn's user_message goes from one non-empty value to
\* a different value, also when the candidate retries with another message
\* after a call that returned the generic error.
C17_UserMessageImmutable ==
    (pre # NoState /\ state # NoState) =>
        \A i \in 1..Len(pre.turns) :
            Truthy(pre.turns[i].user_message) =>
                state.turns[i].user_message = pre.turns[i].user_message

\* C18: in every step, each of candidate.name, position, target_grade and
\* experience that is set keeps its value, and candidate.technologies only
\* grows, its entries keeping their positions.
C18_CandidateAccretes ==
    [][ state # NoState =>
          /\ Truthy(state.candidate.name) =>
                state'.candidate.name = state.candidate.name
          /\ Truthy(state.candidate.position) =>
                state'.candidate.position = state.candidate.position
          /\ Truthy(state.candidate.target_grade) =>
                state'.candidate.target_grade = state.candidate.target_grade
          /\ Truthy(state.candidate.experience) =>
                state'.candidate.experience = state.candidate.experience
          /\ IsPrefix(state.candidate.technologies,
                      state'.candidate.technologies) ]_vars

\* C18 witness: a later extraction named another candidate, grade and
\* technologies; the earlier name and grade stand, the new technology and the
\* fields still unset were added.
C18_Witness ==
    /\ pc = "idle" /\ analysis # NoAnalysis /\ analysis.extracted_info # NoInfo
    /\ analysis.extracted_info.name = "Bob"
    /\ state.candidate.name = "Ann"
    /\ state.candidate.target_grade = "Lead"
    /\ state.candidate.position = "dev"
    /\ state.candidate.technologies = <<"py", "go">>

NoDuplicates(list) ==
    \A i, j \in 1..Len(list) : list[i] = list[j] => i = j

\* C19: in every reachable state covered_topics, confirmed_skills and
\* candidate.technologies contain no duplicate entries.
C19_NoDuplicateEntries ==
    state # NoState =>
        /\ NoDuplicates(state.covered_topics)
        /\ NoDuplicates(state.confirmed_skills)
        /\ NoDuplicates(state.candidate.technologies)

\* C19 witness: lists with repeated entries were merged twice over.
C19_Witness ==
    /\ state # NoState
    /\ Len(state.turns) = 3
    /\ state.covered_topics = <<"SQL", "GIL">>
    /\ state.confirmed_skills = <<"SQL", "GIL">>
    /\ state.candidate.technologies = <<"py", "go">>

\* C20 (as claimed): after a cancellation while the Interviewer's LM call is
\* in flight, current_difficulty and both streak counters equal their
\* snapshot values and no turn has been appended.
C20_CancellationRollsBack ==
    (pc = "idle" /\ call.interviewer = "cancelled") =>
        /\ state.current_difficulty = saved.difficulty
        /\ state.consecutive_good_answers = saved.good_streak
        /\ state.consecutive_bad_answers = saved.bad_streak
        /\ Len(state.turns) = Len(pre.turns)

----------------------------------------------------------------------------
(* Properties of the LLM gateway, checked under SpecGateway.               *)

\* The failures the retry policy names: timeout, connection error and the
\* HTTP statuses 429, 500, 502, 503, 504.
FailedRetryably(o) ==
    \/ o.kind \in {"timeout", "request_error"}
    \/ o.kind = "http" /\ o.status \in {429, 500, 502, 503, 504}

\* C21: one complete call makes another attempt only after an attempt that
\* failed retryably and while fewer than max_retries + 1 attempts were made;
\* it never makes more than max_retries + 1 attempts; it raises the
\* max-retries error after exactly max_retries + 1 attempts that all failed
\* retryably; a non-retryable HTTP status ends the call with an error and
\* no further attempt.
C21_RetryDiscipline ==
    /\ gw.made <= gw.max_retries + 1
    /\ (gw.pc = "request" /\ gw.made > 0)
          => (FailedRetryably(gw.outcome) /\ gw.made < gw.max_retries + 1)
    /\ (gw.error.raised /\ gw.error.kind = "max_retries")
          => (gw.made = gw.max_retries + 1 /\ FailedRetryably(gw.outcome))
    /\ (gw.made = gw.max_retries + 1 /\ FailedRetryably(gw.outcome))
          => (gw.pc = "idle" /\ gw.error.raised
              /\ gw.error.kind = "max_retries")
    /\ (gw.outcome.kind = "http" /\ ~FailedRetryably(gw.outcome))
          => /\ ~(gw.pc = "request" /\ gw.made > 0)
             /\ gw.pc = "idle" => (gw.error.raised /\ gw.error.kind = "http")

C21_Witness ==
    /\ gw.max_retries >= 2
    /\ gw.error.raised
    /\ gw.error.kind = "max_retries"
    /\ gw.made = gw.max_retries + 1

\* C22: the k-th delay of a complete call (k from 0) is min(0.5 * 2^k, 30)
\* seconds, that is min(2^k, 60) half seconds; no delay exceeds 30 s; the
\* delays never decrease; a delay follows every failed attempt but the
\* last one of the call.
C22_BackoffSchedule ==
    /\ \A i \in 1..Len(gw.slept) :
          /\ gw.slept[i] = (IF 2^(i - 1) < 60 THEN 2^(i - 1) ELSE 60)
          /\ gw.slept[i] <= 60
          /\ i > 1 => gw.slept[i - 1] <= gw.slept[i]
    /\ Len(gw.slept) = (IF gw.pc = "request" \/ gw.made = 0
                        THEN gw.made ELSE gw.made - 1)
    /\ Len(gw.slept) <= gw.max_retries

C22_Witness ==
    /\ gw.error.raised
    /\ gw.error.kind = "max_retries"
    /\ Len(gw.slept) = 7
    /\ gw.slept[6] = 32
    /\ gw.slept[7] = 60

\* C23: json_mode_supported is false only after a structured-output request
\* was answered with HTTP 400 whose body names the unsupported response
\* format; no other failure of complete_json clears it.
C23_FlagClearedOnlyByUnsupported400 ==
    ~gw.json_mode_supported
        => /\ gw.flip.kind = "http"
           /\ gw.flip.status = 400
           /\ gw.flip.body \cap {"response_format", "json_object"} # {}

\* C24: once json_mode_supported is false it stays false, and no later
\* request of complete_json carries response_format: the call goes straight
\* to text mode.
C24_FlagStaysCleared ==
    [][~gw.json_mode_supported
          => /\ ~gw'.json_mode_supported
             /\ ~gw'.json_mode
             /\ gw'.sent # "json"]_vars

C24_Witness ==
    /\ gw.calls >= 2
    /\ gw.op = "observer"
    /\ ~gw.flag_at_call
    /\ gw.sent = "text"
    /\ gw.result.kind = "analysis"

\* C25: when the transport succeeds but the content cannot be parsed, the
\* Observer makes exactly generation_retries + 1 LM calls before it falls
\* back.
C25_ObserverRepeatsGeneration ==
    (/\ gw.op = "observer"
     /\ gw.pc = "idle"
     /\ gw.result.kind = "fallback"
     /\ gw.error.raised
     /\ gw.error.kind = "parse")
        => gw.lm_calls = gw.generation_retries + 1

\* C30: with an empty LITELLM_API_KEY the gateway raises before any HTTP
\* request, and start() raises instead of returning a greeting and
\* appending turn 1.
C30_EmptyKeyFailsStart ==
    (gw.api_key = "" /\ gw.op = "greeting" /\ gw.pc = "idle")
        => /\ gw.made = 0
           /\ gw.error.raised
           /\ ret.kind = "LLMClientError"
           /\ state.turns = <<>>

----------------------------------------------------------------------------
(* Evaluator (agents/evaluator.py): EvaluatorAgent.process and             *)
(* _parse_feedback on the JSON object the LM returned.                     *)

\* A key of the response: absent, null, or a JSON object with its fields.
Missing == [t |-> "missing"]
Null == [t |-> "null"]
Obj(fields) == [t |-> "object", v |-> fields]
EmptyObj == Obj(<<>>)

NestedKeys == {"verdict", "technical_review", "soft_skills_review", "roadmap"}

\* The JSON objects complete_json returns to the Evaluator.
FeedbackResponses ==
    [verdict :
        {Missing, Null, EmptyObj,
         Obj([grade |-> "Senior", hiring_recommendation |-> "Strong Hire",
              confidence_score |-> 140]),
         Obj([grade |-> "guru", hiring_recommendation |-> "Hire",
              confidence_score |-> 0 - 5])},
     technical_review :
        {Missing, Null,
         Obj([confirmed_skills |->
                 <<[topic |-> "py", is_confirmed |-> TRUE, details |-> "solid"]>>])},
     soft_skills_review :
        {Missing, Null, Obj([clarity |-> "Good", honesty |-> "high"])},
     roadmap : {Missing, Null, Obj([summary |-> "plan"])},
     general_comments : {Missing, [t |-> "string", v |-> "fine"]}]

\* state.confirmed_skills the Evaluator is called with.
EvaluatedSkills == {<<>>, <<"py">>}

\* response.get(key, default): the default only when the key is absent.
ResponseGet(r, key, default) == IF r[key].t = "missing" THEN default ELSE r[key]

\* data.get(key, default) on a nested object.
ObjGet(data, key, default) ==
    IF key \in DOMAIN data.v THEN data.v[key] ELSE default

\* EvaluatorAgent._parse_grade
EvaluatorParseGrade(grade_str) ==
    LET g == Lower(grade_str) IN
    CASE g = "intern" -> "Intern"
      [] g = "junior" -> "Junior"
      [] g = "middle" -> "Middle"
      [] g = "senior" -> "Senior"
      [] g = "lead" -> "Lead"
      [] OTHER -> "Junior"

\* `sub in lower` on the lowered recommendation strings of the model.
Contains(lower, sub) ==
    \/ sub = "strong" /\ lower = "strong hire"
    \/ sub = "no" /\ lower = "no hire"

_parse_hiring_rec(rec_str) ==
    LET lower == Lower(rec_str) IN
    IF Contains(lower, "strong") THEN "Strong Hire"
    ELSE IF Contains(lower, "no") THEN "No Hire"
    ELSE "Hire"

_parse_clarity(clarity_str) ==
    LET c == Lower(clarity_str) IN
    CASE c = "excellent" -> "Excellent"
      [] c = "good" -> "Good"
      [] c = "average" -> "Average"
      [] c = "poor" -> "Poor"
      [] OTHER -> "Average"

\* min(100, max(0, score))
ClampConfidence(score) ==
    IF score < 0 THEN 0 ELSE IF score > 100 THEN 100 ELSE score

\* Calling .get on None raises AttributeError.
ParserRaises(r) ==
    \E key \in NestedKeys : ResponseGet(r, key, EmptyObj).t = "null"

_parse_feedback(r) ==
    LET verdict_data == ResponseGet(r, "verdict", EmptyObj)
        tech_data == ResponseGet(r, "technical_review", EmptyObj)
        soft_data == ResponseGet(r, "soft_skills_review", EmptyObj)
        roadmap_data == ResponseGet(r, "roadmap", EmptyObj)
    IN  [verdict |->
            [grade |-> EvaluatorParseGrade(ObjGet(verdict_data, "grade", "Junior")),
             hiring_recommendation |->
                 _parse_hiring_rec(ObjGet(verdict_data, "hiring_recommendation",
                                          "No Hire")),
             confidence_score |->
                 ClampConfidence(ObjGet(verdict_data, "confidence_score", 50))],
         technical_review |->
            [confirmed_skills |-> ObjGet(tech_data, "confirmed_skills", <<>>),
             knowledge_gaps |-> ObjGet(tech_data, "knowledge_gaps", <<>>)],
         soft_skills_review |->
            [clarity |-> _parse_clarity(ObjGet(soft_data, "clarity", "Average")),
             clarity_details |-> ObjGet(soft_data, "clarity_details", ""),
             honesty |-> ObjGet(soft_data, "honesty", "undetermined"),
             honesty_details |-> ObjGet(soft_data, "honesty_details", ""),
             engagement |-> ObjGet(soft_data, "engagement", "undetermined"),
             engagement_details |-> ObjGet(soft_data, "engagement_details", "")],
         roadmap |->
            [items |-> ObjGet(roadmap_data, "items", <<>>),
             summary |-> ObjGet(roadmap_data, "summary", "no plan")],
         general_comments |->
            ResponseGet(r, "general_comments", [t |-> "string", v |-> ""]).v]

SkillAssessments(skills) ==
    [i \in 1..Len(skills) |->
        [topic |-> skills[i], is_confirmed |-> TRUE, details |-> "confirmed"]]

_create_fallback_feedback(skills) ==
    [verdict |-> [grade |-> "Junior", hiring_recommendation |-> "No Hire",
                  confidence_score |-> 30],
     technical_review |-> [confirmed_skills |-> SkillAssessments(skills),
                           knowledge_gaps |-> <<>>],
     soft_skills_review |->
        [clarity |-> "Average", clarity_details |-> "incomplete",
         honesty |-> "undetermined", honesty_details |-> "",
         engagement |-> "undetermined", engagement_details |-> ""],
     roadmap |-> [items |-> <<>>, summary |-> "another interview"],
     general_comments |-> "technical error"]

\* What process returns for a response: the parsed feedback, or the
\* fallback when _parse_feedback raised (except Exception).
FeedbackFor(r, skills) ==
    IF ParserRaises(r) THEN _create_fallback_feedback(skills)
    ELSE _parse_feedback(r)

InitEvaluator ==
    /\ SessionNotStarted
    /\ gw = NoGateway
    /\ pr = NoParser
    /\ ss = NoSessions
    /\ fn = NoApplication
    /\ \E skills \in EvaluatedSkills, generation_retries \in 0..MaxGenerationRetries :
          ev = [pc |-> "idle", skills |-> skills,
                generation_retries |-> generation_retries, lm_calls |-> 0,
                lm |-> [kind |-> "none"], parser_raised |-> FALSE, result |-> [kind |-> "none"]]

\* process up to `await self._llm_client.complete_json(...)`.
EvaluatorBegin ==
    /\ ev.pc = "idle"
    /\ ev' = [ev EXCEPT !.pc = "awaiting", !.lm_calls = @ + 1]
    /\ UNCHANGED <<sessionVars, gw, pr, ss, fn>>

\* complete_json returned a JSON object: _parse_feedback, or the fallback
\* when it raised.
EvaluatorAnswered ==
    /\ ev.pc = "awaiting"
    /\ \E r \in FeedbackResponses :
          ev' = [ev EXCEPT !.pc = "done", !.lm = [kind |-> "json", response |-> r],
                           !.parser_raised = ParserRaises(r),
                           !.result = [kind |-> "feedback",
                                       feedback |-> FeedbackFor(r, ev.skills)]]
    /\ UNCHANGED <<sessionVars, gw, pr, ss, fn>>

\* complete_json raised LLMClientError: the content held no JSON
\* ("unparsable") or the gateway gave up ("gateway_error").
EvaluatorLMFailed ==
    /\ ev.pc = "awaiting"
    /\ \E kind \in {"unparsable", "gateway_error"} :
          ev' = [ev EXCEPT !.pc = "done", !.lm = [kind |-> kind],
                           !.result = [kind |-> "feedback",
                                       feedback |->
                                           _create_fallback_feedback(ev.skills)]]
    /\ UNCHANGED <<sessionVars, gw, pr, ss, fn>>

NextEvaluator ==
    \/ EvaluatorBegin
    \/ EvaluatorAnswered
    \/ EvaluatorLMFailed

SpecEvaluator == InitEvaluator /\ [][NextEvaluator]_vars

\* The response with every null nested object left out.
NullsAsMissing(r) ==
    [key \in DOMAIN r |-> IF r[key].t = "null" THEN Missing ELSE r[key]]

\* C26: when the content the Evaluator got cannot be parsed on any
\* attempt, process raises instead of returning a feedback.
C26_EvaluatorRaisesOnUnparsable ==
    (ev.pc = "done" /\ ev.lm.kind = "unparsable") => ev.result.kind = "raised"

\* C27: a response with a null nested object yields the feedback the same
\* response yields with that key missing, and nothing is raised inside
\* _parse_feedback.
C27_NullAsMissing ==
    (ev.pc = "done" /\ ev.lm.kind = "json")
        => /\ ~ev.parser_raised
           /\ ev.result.kind = "feedback"
           /\ ev.result.feedback
                 = FeedbackFor(NullsAsMissing(ev.lm.response), ev.skills)

----------------------------------------------------------------------------
(* Two sessions of one process (interview/session.py): each is built by    *)
(* create_interview_session, and all share the process-wide LangfuseTracker*)
(* with its _session_metrics dictionary.  Operations interleave at their   *)
(* awaits.                                                                 *)

Sessions == {1, 2}

\* config.max_turns of both sessions.
MaxSessionTurns == 2

\* process_message / generate_feedback calls begun on one session.
MaxSessionOps == 2

\* JSON objects the Observer gets here: a good answer and a stop command.
SessionRecords ==
    {r \in AnswerRecords :
        /\ r.quality = "good" /\ r.is_factually_correct
        /\ r.should_increase_difficulty /\ ~r.should_simplify}
    \cup {r \in InfoRecords :
             r.response_type = "stop_command" /\ r.extracted_info.name = "Ann"}

\* _session_metrics.get(session_id) is None
NoMetrics == [present |-> FALSE, generations |-> 0, turns |-> 0]

\* SessionMetrics()
SessionMetrics == [present |-> TRUE, generations |-> 0, turns |-> 0]

\* A session not built yet.
NoSession ==
    [created |-> FALSE, client |-> 0, session_id |-> 0, state |-> NoState,
     pc |-> "none", user_message |-> NoneVal, analysis |-> NoAnalysis,
     saved |-> NoSaved, last_agent_message |-> "", ops |-> 0]

\* A create_llm_client that hands every session the first client.
create_llm_client_shared(x) == 1

\* create_llm_client: a new LLMClient object (its index among the clients).
create_llm_client(x) == Len(x.clients) + 1

\* str(uuid4()): an identifier not used before.
uuid4(x) == x.uuids + 1

\* LangfuseTracker.end_generation: add the usage to the session's metrics.
end_generation(x, session_id) ==
    IF session_id # 0 /\ x.metrics[session_id].present
    THEN [x EXCEPT !.metrics[session_id].generations = @ + 1]
    ELSE x

\* LangfuseTracker.increment_turn
increment_turn(x, session_id) ==
    IF session_id # 0 /\ x.metrics[session_id].present
    THEN [x EXCEPT !.metrics[session_id].turns = @ + 1]
    ELSE x

\* LangfuseTracker.clear_session_metrics
clear_session_metrics(x, session_id) ==
    [x EXCEPT !.metrics[session_id] = NoMetrics]

\* An LM call of session i is over: a generation with usage is recorded
\* when the call succeeded.
LMCallDone(x, i, ok) ==
    IF ok THEN end_generation(x, x.sess[i].session_id) ELSE x

\* Stages 2-4 of process_message on a session record.
ObserverStep(sn, a) ==
    LET s1 == CandidateStage(sn.state, a) IN
    IF a.response_type = "stop_command"
    THEN [sn EXCEPT !.state = StopStage(s1, a), !.analysis = a,
                    !.saved = NoSaved, !.pc = "idle"]
    ELSE [sn EXCEPT !.state = ApplyDifficultyStage(s1, a), !.analysis = a,
                    !.saved = Snapshot(s1), !.pc = "interviewer"]

\* Stage 6 and the turn limit on a session record.
CommitStep(sn, out) ==
    LET s1 == Commit(sn.state, sn.analysis, sn.user_message, out) IN
    [sn EXCEPT !.state = IF s1.current_turn >= MaxSessionTurns
                         THEN [s1 EXCEPT !.is_active = FALSE] ELSE s1,
               !.last_agent_message = out.response, !.pc = "idle"]

InitSessions ==
    /\ SessionNotStarted
    /\ gw = NoGateway
    /\ ev = NoEvaluator
    /\ pr = NoParser
    /\ fn = NoApplication
    /\ \E enabled \in BOOLEAN :
          ss = [langfuse_enabled |-> enabled, clients |-> <<>>, uuids |-> 0,
                metrics |-> [id \in Sessions |-> NoMetrics],
                sess |-> [i \in Sessions |-> NoSession], actor |-> 0]

\* One step of session i that leaves the tracker and clients as in x.
SessionStep(x, i, sn) ==
    /\ ss' = [x EXCEPT !.sess[i] = sn, !.actor = i]
    /\ UNCHANGED <<sessionVars, gw, ev, pr, fn>>

\* create_interview_session
SessionCreate(i) ==
    /\ ~ss.sess[i].created
    /\ SessionStep([ss EXCEPT !.clients = Append(@, [json_mode_supported |-> TRUE,
                                                       closed |-> FALSE])],
                   i,
                   [ss.sess[i] EXCEPT !.created = TRUE, !.pc = "idle",
                                      !.client = create_llm_client(ss)])

\* start up to the await of generate_greeting.
SessionStart(i) ==
    /\ ss.sess[i].pc = "idle"
    /\ ss.sess[i].state = NoState
    /\ LET id == uuid4(ss)
           x == [ss EXCEPT !.uuids = id,
                           !.metrics[id] = IF ss.langfuse_enabled
                                           THEN SessionMetrics ELSE @]
       IN  SessionStep(x, i, [ss.sess[i] EXCEPT !.state = InterviewState,
                                                !.session_id = id,
                                                !.pc = "greeting"])

\* generate_greeting returned: turn 1.
SessionGreeted(i) ==
    /\ ss.sess[i].pc = "greeting"
    /\ \E ok \in BOOLEAN :
          LET greeting == IF ok THEN "hello" ELSE FALLBACK_GREETING IN
          SessionStep(LMCallDone(ss, i, ok), i,
                      [ss.sess[i] EXCEPT
                          !.state = add_turn(@, InterviewTurn(1, greeting)),
                          !.last_agent_message = greeting, !.pc = "idle"])

\* process_message up to the await of the Observer.
SessionProcessBegin(i) ==
    /\ ss.sess[i].pc = "idle"
    /\ ss.sess[i].state # NoState
    /\ ss.sess[i].state.is_active
    /\ ss.sess[i].ops < MaxSessionOps
    /\ \E m \in {"ans"} :
          SessionStep(ss, i,
                      [ss.sess[i] EXCEPT !.state = AttachUserMessage(@, m),
                                         !.user_message = m, !.ops = @ + 1,
                                         !.analysis = NoAnalysis,
                                         !.saved = NoSaved, !.pc = "observer"])

\* The Observer's complete_json is over: the client's flag may have been
\* cleared; the analysis is parsed or the fallback.
SessionObserved(i) ==
    /\ ss.sess[i].pc = "observer"
    /\ \E ok \in BOOLEAN, cleared \in BOOLEAN, r \in SessionRecords :
          LET c == ss.sess[i].client
              x == [LMCallDone(ss, i, ok) EXCEPT
                       !.clients[c].json_mode_supported = @ /\ ~cleared]
              a == IF ok THEN _parse_analysis(r)
                   ELSE _create_fallback_analysis(ss.sess[i].user_message)
          IN  SessionStep(x, i, ObserverStep(ss.sess[i], a))

\* The Interviewer's call is over: commit, or roll back when it raised.
SessionAnswered(i) ==
    /\ ss.sess[i].pc = "interviewer"
    /\ \E outcome \in {"ok", "gateway_error", "raised"} :
          LET sn == ss.sess[i]
              x == LMCallDone(ss, i, outcome = "ok")
          IN  IF outcome = "raised"
              THEN SessionStep(x, i, [sn EXCEPT !.state = Rollback(@, sn.saved),
                                                !.pc = "idle"])
              ELSE SessionStep(increment_turn(x, sn.session_id), i,
                               CommitStep(sn, InterviewerProcess(sn.analysis,
                                                                 outcome, "q1")))

\* generate_feedback up to the await of the Evaluator.
SessionFinish(i) ==
    /\ ss.sess[i].pc = "idle"
    /\ ss.sess[i].state # NoState
    /\ ss.sess[i].ops < MaxSessionOps
    /\ SessionStep(ss, i, [ss.sess[i] EXCEPT !.pc = "evaluator", !.ops = @ + 1])

\* The Evaluator returned its feedback.
SessionEvaluated(i) ==
    /\ ss.sess[i].pc = "evaluator"
    /\ \E ok \in BOOLEAN :
          SessionStep(LMCallDone(ss, i, ok), i, [ss.sess[i] EXCEPT !.pc = "idle"])

\* close: drop the own metrics, close the own client.
SessionClose(i) ==
    /\ ss.sess[i].pc = "idle"
    /\ LET sn == ss.sess[i]
           x1 == IF sn.session_id # 0
                 THEN clear_session_metrics(ss, sn.session_id) ELSE ss
           x2 == [x1 EXCEPT !.clients[sn.client].closed = TRUE]
       IN  SessionStep(x2, i, [sn EXCEPT !.pc = "closed"])

NextSessions ==
    \E i \in Sessions :
        \/ SessionCreate(i)
        \/ SessionStart(i)
        \/ SessionGreeted(i)
        \/ SessionProcessBegin(i)
        \/ SessionObserved(i)
        \/ SessionAnswered(i)
        \/ SessionFinish(i)
        \/ SessionEvaluated(i)
        \/ SessionClose(i)

SpecSessions == InitSessions /\ [][NextSessions]_vars

\* What session j owns: its InterviewState, its gateway's flag, its metrics.
SessionView(x, j) ==
    [state |-> x.sess[j].state,
     json_mode_supported |->
         IF x.sess[j].client = 0 THEN TRUE
         ELSE x.clients[x.sess[j].client].json_mode_supported,
     metrics |-> IF x.sess[j].session_id = 0 THEN NoMetrics
                 ELSE x.metrics[x.sess[j].session_id]]

\* C28: while two sessions interleave their operations, no step of one
\* session changes the other's InterviewState, the json_mode_supported flag
\* of the other's gateway, or the other's token metrics.
C28_SessionsIsolated ==
    [][\A j \in Sessions :
          j # ss'.actor => SessionView(ss', j) = SessionView(ss, j)]_vars

C28_Witness ==
    /\ ss.sess[1].pc = "interviewer"
    /\ ss.sess[2].pc = "observer"
    /\ ~ss.clients[ss.sess[1].client].json_mode_supported
    /\ ss.clients[ss.sess[2].client].json_mode_supported
    /\ ss.metrics[ss.sess[1].session_id].generations >= 2
    /\ ss.metrics[ss.sess[2].session_id].generations = 1

----------------------------------------------------------------------------
(* Response parser (llm/response_parser.py).  A text is a sequence of      *)
(* tokens: "{" "}" ":" and "a" are characters, "Q" is a double quote, "bs" *)
(* a backslash, "sp" a space, "nl" a newline; "<r>", "</r>", "<result>",   *)
(* "</result>" and "json" stand for those character runs, "fence" for the  *)
(* three backquotes of a markdown code block.                              *)

Ws == {"sp", "nl"}

Str(chars) == [t |-> "str", s |-> chars]
Object(members) == [t |-> "obj", m |-> members]
Member(v) == <<[k |-> <<"a">>, v |-> v]>>

\* Contents of the string values of the documents.
StringValues ==
    {<<>>, <<"a">>, <<"a", "a">>, <<"Q">>, <<"{">>, <<"}">>, <<"{", "}">>,
     <<"}", "{">>, <<"<r>">>, <<"fence">>,
     <<"<r>", "{", "}", "</r>">>,
     <<"<result>", "{", "}", "</result>">>,
     <<"fence", "{", "}", "fence">>}

\* The JSON objects d.
Documents ==
    {Object(<<>>), Object(Member(Object(<<>>)))}
    \cup {Object(Member(Str(c))) : c \in StringValues}
    \cup {Object(Member(Object(Member(Str(c))))) : c \in StringValues}

\* How the serialisation is embedded in the LM's text.
Wrappers == {"bare", "r", "result", "fence", "prefix", "no_json"}

RECURSIVE Escape(_)
\* json.dumps on a string body: a quote and a backslash get a backslash.
Escape(chars) ==
    IF chars = <<>> THEN <<>>
    ELSE (IF Head(chars) \in {"Q", "bs"} THEN <<"bs", Head(chars)>>
          ELSE <<Head(chars)>>) \o Escape(Tail(chars))

RECURSIVE json_dumps(_)
\* json.dumps(d)
json_dumps(v) ==
    IF v.t = "str" THEN <<"Q">> \o Escape(v.s) \o <<"Q">>
    ELSE IF v.m = <<>> THEN <<"{", "}">>
    ELSE <<"{", "Q">> \o Escape(v.m[1].k) \o <<"Q", ":", "sp">>
         \o json_dumps(v.m[1].v) \o <<"}">>

Wrap(w, ser) ==
    CASE w = "bare" -> ser
      [] w = "r" -> <<"<r>">> \o ser \o <<"</r>">>
      [] w = "result" -> <<"<result>">> \o ser \o <<"</result>">>
      [] w = "fence" -> <<"fence", "json", "nl">> \o ser \o <<"nl", "fence">>
      [] w = "prefix" -> <<"a", "sp">> \o ser \o <<"sp", "a">>
      [] OTHER -> <<"a", "sp", "a">>

NoParse == [ok |-> FALSE]

RECURSIVE SkipWs(_, _)
SkipWs(t, i) == IF i <= Len(t) /\ t[i] \in Ws THEN SkipWs(t, i + 1) ELSE i

RECURSIVE StringBody(_, _, _)
\* json.loads inside a string, after its opening quote.
StringBody(t, i, acc) ==
    IF i > Len(t) \/ t[i] = "nl" THEN NoParse
    ELSE IF t[i] = "Q" THEN [ok |-> TRUE, v |-> Str(acc), next |-> i + 1]
    ELSE IF t[i] = "bs"
    THEN IF i + 1 <= Len(t) /\ t[i + 1] \in {"Q", "bs"}
         THEN StringBody(t, i + 2, Append(acc, t[i + 1]))
         ELSE NoParse
    ELSE StringBody(t, i + 1, Append(acc, t[i]))

RECURSIVE ParseValue(_, _)
\* json.loads on the value that begins at position i.
ParseValue(t, i) ==
    IF i > Len(t) THEN NoParse
    ELSE IF t[i] = "Q" THEN StringBody(t, i + 1, <<>>)
    ELSE IF t[i] # "{" THEN NoParse
    ELSE LET j == SkipWs(t, i + 1) IN
         IF j > Len(t) THEN NoParse
         ELSE IF t[j] = "}"
         THEN [ok |-> TRUE, v |-> Object(<<>>), next |-> j + 1]
         ELSE IF t[j] # "Q" THEN NoParse
         ELSE LET key == StringBody(t, j + 1, <<>>) IN
              IF ~key.ok THEN NoParse
              ELSE LET c == SkipWs(t, key.next) IN
                   IF c > Len(t) \/ t[c] # ":" THEN NoParse
                   ELSE LET val == ParseValue(t, SkipWs(t, c + 1)) IN
                        IF ~val.ok THEN NoParse
                        ELSE LET e == SkipWs(t, val.next) IN
                             IF e <= Len(t) /\ t[e] = "}"
                             THEN [ok |-> TRUE,
                                   v |-> Object(<<[k |-> key.v.s, v |-> val.v]>>),
                                   next |-> e + 1]
                             ELSE NoParse

\* text.strip()
Strip(t) ==
    LET first == SkipWs(t, 1)
        lasts == {i \in 1..Len(t) : t[i] \notin Ws}
    IN  IF lasts = {} THEN <<>>
        ELSE SubSeq(t, first, CHOOSE i \in lasts : \A j \in lasts : j <= i)

\* _try_parse_json: json.loads of the stripped text, a dict or None.
_try_parse_json(text) ==
    LET cleaned == Strip(text) IN
    IF cleaned = <<>> \/ cleaned[1] # "{" THEN NoParse
    ELSE LET r == ParseValue(cleaned, 1) IN
         IF r.ok /\ r.next = Len(cleaned) + 1 THEN [ok |-> TRUE, v |-> r.v]
         ELSE NoParse

\* The least index >= from that holds tok, or 0.
Find(t, tok, from) ==
    LET hits == {i \in from..Len(t) : t[i] = tok} IN
    IF hits = {} THEN 0 ELSE CHOOSE i \in hits : \A j \in hits : i <= j

\* The greatest index that holds tok, or 0.
RFind(t, tok) ==
    LET hits == {i \in 1..Len(t) : t[i] = tok} IN
    IF hits = {} THEN 0 ELSE CHOOSE i \in hits : \A j \in hits : j <= i

\* pattern.search for <open>(.*?)<close>: group(1), when there is a match.
TagSearch(t, open, close) ==
    LET o == Find(t, open, 1)
        c == IF o = 0 THEN 0 ELSE Find(t, close, o + 1)
    IN  IF c = 0 THEN [found |-> FALSE]
        ELSE [found |-> TRUE, inner |-> SubSeq(t, o + 1, c - 1)]

\* _JSON_CODE_BLOCK_PATTERN.search: fence, optional json, whitespace,
\* then the shortest text up to the next fence.
FenceSearch(t) ==
    LET o == Find(t, "fence", 1)
        j == IF o # 0 /\ o + 1 <= Len(t) /\ t[o + 1] = "json" THEN o + 2
             ELSE o + 1
        b == SkipWs(t, j)
        c == IF o = 0 THEN 0 ELSE Find(t, "fence", b)
    IN  IF c = 0 THEN [found |-> FALSE]
        ELSE [found |-> TRUE, inner |-> SubSeq(t, b, c - 1)]

RECURSIVE BalancedEnd(_, _, _, _, _)
\* The brace scan of _extract_raw_json_object: the index where depth
\* returns to 0, or 0.
BalancedEnd(t, i, depth, in_string, escape_next) ==
    IF i > Len(t) THEN 0
    ELSE IF escape_next THEN BalancedEnd(t, i + 1, depth, in_string, FALSE)
    ELSE IF t[i] = "bs" THEN BalancedEnd(t, i + 1, depth, in_string, in_string)
    ELSE IF t[i] = "Q" THEN BalancedEnd(t, i + 1, depth, ~in_string, FALSE)
    ELSE IF in_string THEN BalancedEnd(t, i + 1, depth, in_string, FALSE)
    ELSE IF t[i] = "{" THEN BalancedEnd(t, i + 1, depth + 1, in_string, FALSE)
    ELSE IF t[i] = "}"
    THEN IF depth - 1 = 0 THEN i
         ELSE BalancedEnd(t, i + 1, depth - 1, in_string, FALSE)
    ELSE BalancedEnd(t, i + 1, depth, in_string, FALSE)

_extract_raw_json_object(text) ==
    LET start == Find(text, "{", 1)
        end == RFind(text, "}")
    IN  IF start = 0 \/ end <= start THEN NoParse
        ELSE LET whole == _try_parse_json(SubSeq(text, start, end)) IN
             IF whole.ok THEN whole
             ELSE LET i == BalancedEnd(text, start, 0, FALSE, FALSE) IN
                  IF i = 0 THEN NoParse
                  ELSE _try_parse_json(SubSeq(text, start, i))

\* One tag or fence strategy: the parsed inner text, when there is one.
Strategy(match) ==
    IF match.found THEN _try_parse_json(match.inner) ELSE NoParse

\* extract_json_from_llm_response: the dict, or ValueError (ok = FALSE).
extract_json_from_llm_response(text) ==
    IF Strip(text) = <<>> THEN NoParse
    ELSE LET s1 == Strategy(TagSearch(text, "<r>", "</r>"))
             s2 == Strategy(TagSearch(text, "<result>", "</result>"))
             s3 == Strategy(FenceSearch(text))
         IN  IF s1.ok THEN s1
             ELSE IF s2.ok THEN s2
             ELSE IF s3.ok THEN s3
             ELSE _extract_raw_json_object(text)

InitParser ==
    /\ SessionNotStarted
    /\ gw = NoGateway
    /\ ev = NoEvaluator
    /\ ss = NoSessions
    /\ fn = NoApplication
    /\ \E d \in Documents, w \in Wrappers :
          pr = [pc |-> "ready", d |-> d, wrapper |-> w,
                text |-> Wrap(w, json_dumps(d)), result |-> [kind |-> "none"]]

\* extract_json_from_llm_response returns a dict.
ParserReturns ==
    /\ pr.pc = "ready"
    /\ extract_json_from_llm_response(pr.text).ok
    /\ pr' = [pr EXCEPT !.pc = "done",
                        !.result = [kind |-> "dict",
                                    v |-> extract_json_from_llm_response(pr.text).v]]
    /\ UNCHANGED <<sessionVars, gw, ev, ss, fn>>

\* extract_json_from_llm_response raises ValueError.
ParserRaisesValueError ==
    /\ pr.pc = "ready"
    /\ ~extract_json_from_llm_response(pr.text).ok
    /\ pr' = [pr EXCEPT !.pc = "done", !.result = [kind |-> "ValueError"]]
    /\ UNCHANGED <<sessionVars, gw, ev, ss, fn>>

NextParser ==
    \/ ParserReturns
    \/ ParserRaisesValueError

SpecParser == InitParser /\ [][NextParser]_vars

\* C29: for a JSON object d with serialisation s, parsing s itself, s in
\* <r> or <result> tags, s in a json fenced block, or s between a prefix
\* and a suffix returns exactly d.
C29_ParserRoundTrip ==
    (pr.pc = "done" /\ pr.wrapper \in {"bare", "r", "result", "fence", "prefix"})
        => (pr.result.kind = "dict" /\ pr.result.v = pr.d)

----------------------------------------------------------------------------
(* Pure functions of the program, applied once to an input drawn by Init:  *)
(* InterviewerAgent._get_response_instruction, InterviewState.             *)
(* get_conversation_history and InterviewState.adjust_difficulty.          *)

\* Largest streak counter value given to adjust_difficulty.
MaxStreak == 2
\* Longest transcript given to get_conversation_history.
MaxHistoryTurns == 3
\* Largest max_turns argument given to get_conversation_history.
MaxWindow == 4

\* The instruction _get_response_instruction returns, named by what it
\* tells the Interviewer to do.  The function reads response_type and
\* answered_last_question only; ObserverAnalysis has no gibberish field.
_get_response_instruction(a) ==
    IF a.response_type = "introduction" THEN "first_question"
    ELSE IF a.response_type = "hallucination" THEN "correct_repeat_anchor"
    ELSE IF a.response_type = "off_topic" THEN "redirect_repeat_anchor"
    ELSE IF a.response_type = "question" THEN "answer_repeat_anchor"
    ELSE IF a.response_type = "incomplete" THEN "ask_elaboration"
    ELSE IF ~a.answered_last_question THEN "repeat_anchor"
    ELSE IF a.response_type = "excellent" THEN "praise_harder_question"
    ELSE "next_question"

\* for turn in turns_to_use: the assistant message of each turn, then its
\* user message if truthy.
RECURSIVE HistoryOf(_)
HistoryOf(turns) ==
    IF turns = <<>> THEN <<>>
    ELSE <<[role |-> "assistant",
            content |-> Head(turns).agent_visible_message]>>
         \o (IF Truthy(Head(turns).user_message)
             THEN <<[role |-> "user", content |-> Head(turns).user_message]>>
             ELSE <<>>)
         \o HistoryOf(Tail(turns))

\* turns_to_use = self.turns[-max_turns:]; Python reads -0 as 0, the start
\* of the list, and a slice longer than the list as the whole list.
get_conversation_history(s, n) ==
    HistoryOf(IF n = 0 \/ n >= Len(s.turns) THEN s.turns
              ELSE SubSeq(s.turns, Len(s.turns) - n + 1, Len(s.turns)))

\* A transcript of n turns as the session builds it: every turn but the
\* last has its user message, the last may still be waiting for one.
Transcript(n, tail_message) ==
    [i \in 1..n |->
        [InterviewTurn(i, <<"hello", "q1", "q2", "q3", "q4">>[i])
            EXCEPT !.user_message = IF i = n THEN tail_message ELSE "ans"]]

InitFunctions ==
    /\ SessionNotStarted
    /\ gw = NoGateway
    /\ ev = NoEvaluator
    /\ pr = NoParser
    /\ ss = NoSessions
    /\ \/ \E t \in ResponseType, ans \in BOOLEAN, gib \in BOOLEAN :
             fn = [op |-> "instruction", pc |-> "ready", is_gibberish |-> gib,
                   analysis |-> [response_type |-> t,
                                 answered_last_question |-> ans],
                   result |-> "none"]
       \/ \E n \in 0..MaxHistoryTurns, m \in {NoneVal, "ans"},
             w \in 0..MaxWindow :
             fn = [op |-> "history", pc |-> "ready",
                   state |-> [InterviewState EXCEPT
                                 !.turns = Transcript(n, m),
                                 !.current_turn = n],
                   max_turns |-> w, result |-> <<>>]
       \/ \E d \in BASIC..EXPERT, good \in 0..MaxStreak, bad \in 0..MaxStreak,
             flags \in BOOLEAN \X BOOLEAN :
             fn = [op |-> "adjust", pc |-> "ready",
                   state |-> [InterviewState EXCEPT
                                 !.current_difficulty = d,
                                 !.consecutive_good_answers = good,
                                 !.consecutive_bad_answers = bad],
                   analysis |-> [should_simplify |-> flags[1],
                                 should_increase_difficulty |-> flags[2]],
                   result |-> NoState]

GetResponseInstruction ==
    /\ fn.op = "instruction" /\ fn.pc = "ready"
    /\ fn' = [fn EXCEPT !.pc = "done",
                        !.result = _get_response_instruction(fn.analysis)]
    /\ UNCHANGED <<sessionVars, gw, ev, pr, ss>>

GetConversationHistory ==
    /\ fn.op = "history" /\ fn.pc = "ready"
    /\ fn' = [fn EXCEPT !.pc = "done",
                        !.result = get_conversation_history(fn.state,
                                                            fn.max_turns)]
    /\ UNCHANGED <<sessionVars, gw, ev, pr, ss>>

AdjustDifficulty ==
    /\ fn.op = "adjust" /\ fn.pc = "ready"
    /\ fn' = [fn EXCEPT !.pc = "done",
                        !.result = adjust_difficulty(fn.state, fn.analysis)]
    /\ UNCHANGED <<sessionVars, gw, ev, pr, ss>>

NextFunctions ==
    \/ GetResponseInstruction
    \/ GetConversationHistory
    \/ AdjustDifficulty

SpecFunctions == InitFunctions /\ [][NextFunctions]_vars

InstructionDone == fn.op = "instruction" /\ fn.pc = "done"
HistoryDone == fn.op = "history" /\ fn.pc = "done"
AdjustDone == fn.op = "adjust" /\ fn.pc = "done"

\* The Interviewer Instruction Selection table, first matching row.
InstructionTable(gib, a) ==
    IF gib THEN "repeat_anchor"
    ELSE IF a.response_type = "introduction" THEN "first_question"
    ELSE IF a.response_type = "hallucination"
    THEN (IF a.answered_last_question THEN "correct_new_question"
          ELSE "correct_repeat_anchor")
    ELSE IF a.response_type = "off_topic" THEN "redirect_repeat_anchor"
    ELSE IF a.response_type = "question" THEN "answer_repeat_anchor"
    ELSE IF a.response_type = "incomplete"
    THEN (IF a.answered_last_question THEN "ask_elaboration"
          ELSE "repeat_anchor")
    ELSE IF ~a.answered_last_question THEN "repeat_anchor"
    ELSE IF a.response_type = "excellent" THEN "praise_harder_question"
    ELSE "next_question"

\* C31: the category of the instruction handed to the Interviewer is the
\* first matching row of the decision table: gibberish repeats the anchor;
\* Introduction asks the first technical question; Hallucination corrects
\* and asks a new question when answered, corrects and repeats the anchor
\* when not; OffTopic redirects and repeats the anchor; Question answers
\* briefly and repeats the anchor; Incomplete asks for elaboration when
\* answered and repeats the anchor when not; any other unanswered reply
\* repeats the anchor; Excellent praises and asks a harder question;
\* everything else asks the next question.
C31_InstructionTable ==
    InstructionDone => fn.result = InstructionTable(fn.is_gibberish, fn.analysis)

\* Instructions that send the candidate back to the anchor question.
RepeatsAnchor ==
    {"repeat_anchor", "correct_repeat_anchor", "redirect_repeat_anchor",
     "answer_repeat_anchor"}

\* C32: for every Analysis with answered_last_question false and a
\* response type other than Introduction the instruction repeats the
\* anchor; it never asks a new question or for elaboration.
C32_AnchorPreserved ==
    (InstructionDone /\ ~fn.analysis.answered_last_question
                     /\ fn.analysis.response_type # "introduction")
        => fn.result \in RepeatsAnchor

\* The messages of the last n turns of a transcript, oldest first.
RECURSIVE MessagesOfLast(_, _)
MessagesOfLast(turns, n) ==
    IF n = 0 \/ turns = <<>> THEN <<>>
    ELSE LET last == turns[Len(turns)] IN
         MessagesOfLast(SubSeq(turns, 1, Len(turns) - 1), n - 1)
         \o <<[role |-> "assistant", content |-> last.agent_visible_message]>>
         \o (IF last.user_message # NoneVal
             THEN <<[role |-> "user", content |-> last.user_message]>>
             ELSE <<>>)

\* C37: get_conversation_history(max_turns) returns, for every
\* max_turns >= 0, the messages of exactly the last
\* min(max_turns, number of turns) turns, each turn as its assistant message
\* followed by its user message if it has one; never more than max_turns
\* turns.
C37_HistoryWindow ==
    HistoryDone => fn.result = MessagesOfLast(fn.state.turns, fn.max_turns)

\* The level one step up or down, kept within Basic..Expert.
Clamp(d) == IF d < BASIC THEN BASIC ELSE IF d > EXPERT THEN EXPERT ELSE d

\* C34: adjust_difficulty is the Difficulty Controller transition for
\* every level, counter pair and flag combination: with
\* should_increase_difficulty the bad streak resets and the good streak
\* grows, at two the level steps up (capped at Expert) and the good streak
\* resets; otherwise with should_simplify the mirror image (floored at
\* Basic); with neither flag both streaks reset; both flags together take
\* the increase branch; the level stays within Basic..Expert.
C34_DifficultyController ==
    AdjustDone =>
        LET s == fn.state
            a == fn.analysis
            r == fn.result
            level == r.current_difficulty - s.current_difficulty
        IN  /\ r.current_difficulty \in BASIC..EXPERT
            /\ a.should_increase_difficulty =>
                  /\ r.consecutive_bad_answers = 0
                  /\ IF s.consecutive_good_answers + 1 >= 2
                     THEN /\ r.consecutive_good_answers = 0
                          /\ r.current_difficulty = Clamp(s.current_difficulty + 1)
                     ELSE /\ r.consecutive_good_answers = s.consecutive_good_answers + 1
                          /\ level = 0
            /\ (~a.should_increase_difficulty /\ a.should_simplify) =>
                  /\ r.consecutive_good_answers = 0
                  /\ IF s.consecutive_bad_answers + 1 >= 2
                     THEN /\ r.consecutive_bad_answers = 0
                          /\ r.current_difficulty = Clamp(s.current_difficulty - 1)
                     ELSE /\ r.consecutive_bad_answers = s.consecutive_bad_answers + 1
                          /\ level = 0
            /\ (~a.should_increase_difficulty /\ ~a.should_simplify) =>
                  /\ r.consecutive_good_answers = 0
                  /\ r.consecutive_bad_answers = 0
                  /\ level = 0
            /\ r = [s EXCEPT !.current_difficulty = r.current_difficulty,
                             !.consecutive_good_answers = r.consecutive_good_answers,
                             !.consecutive_bad_answers = r.consecutive_bad_answers]

\* Both flags set, one good answer already counted, level below Expert:
\* the call stepped the level up.
C34_Witness ==
    /\ AdjustDone
    /\ fn.analysis.should_increase_difficulty /\ fn.analysis.should_simplify
    /\ fn.state.consecutive_good_answers = 1
    /\ fn.state.consecutive_bad_answers = 1
    /\ fn.result.current_difficulty = fn.state.current_difficulty + 1

----------------------------------------------------------------------------
(* Further properties of process_message.                                  *)

\* The agent message of the most recent turn of the transcript.
TailAgentMessage == state.turns[Len(state.turns)].agent_visible_message

\* C33: the anchor never drifts from the transcript: while the Observer
\* call or the Interviewer call of a process_message is under way, the
\* anchor text given to the Observer (the session's _last_agent_message)
\* and the one given to the Interviewer (the tail turn's agent message)
\* both equal the agent message of the most recent turn.
C33_AnchorFollowsTranscript ==
    pc \in {"observer", "interviewer"} =>
        /\ state.turns # <<>>
        /\ last_agent_message = TailAgentMessage

\* An Observer call on a transcript whose anchor is an Interviewer
\* utterance, no longer the greeting.
C33_Witness ==
    /\ pc = "observer"
    /\ Len(state.turns) >= 2
    /\ last_agent_message \in LMTexts
    /\ last_agent_message = TailAgentMessage

ToSet(s) == {s[i] : i \in 1..Len(s)}

\* List t is list s with new elements appended: s is kept as a prefix and t
\* holds exactly the elements of s and of added.
Gained(s, t, added) ==
    /\ IsPrefix(s, t)
    /\ ToSet(t) = ToSet(s) \cup ToSet(added)

\* The answer confirms skills: it addressed the question, is factually
\* correct and of quality Excellent or Good.
ConfirmsSkills(a) ==
    /\ a.answered_last_question
    /\ a.is_factually_correct
    /\ a.quality \in {"excellent", "good"}

C40_StreaksBelowTwo ==
    (pc = "idle" /\ state # NoState) =>
        /\ state.consecutive_good_answers \in {0, 1}
        /\ state.consecutive_bad_answers \in {0, 1}

\* A committed call that began at Basic with one bad answer counted and
\* whose Analysis asked to simplify: the streak was reset although the
\* level could not move.
C40_Witness ==
    /\ Committed
    /\ pre.current_difficulty = BASIC /\ pre.consecutive_bad_answers = 1
    /\ analysis.should_simplify /\ ~analysis.should_increase_difficulty
    /\ state.current_difficulty = BASIC
    /\ state.consecutive_bad_answers = 0

\* The grade a declared grade, written as the grade's name, stands for;
\* unrecognised strings are treated as Junior.
DeclaredGrade(str) ==
    IF str \in {"Intern", "Junior", "Middle", "Senior", "Lead"} THEN str
    ELSE "Junior"

\* The initial difficulty of a grade.
GradeSeed(grade) ==
    IF grade \in {"Intern", "Junior"} THEN BASIC
    ELSE IF grade = "Middle" THEN INTERMEDIATE
    ELSE IF grade = "Senior" THEN ADVANCED
    ELSE EXPERT

ProcessOnce(s, m, a, out) ==
    LET s1 == CandidateStage(AttachUserMessage(s, m), a) IN
    IF a.response_type = "stop_command" THEN StopStage(s1, a)
    ELSE LET s2 == Commit(ApplyDifficultyStage(s1, a), a, m, out) IN
         IF s2.current_turn >= max_turns
         THEN [s2 EXCEPT !.is_active = FALSE] ELSE s2

\* Analyses the Observer can return.
Analyses ==
    {_parse_analysis(r) : r \in LMRecords}
        \cup {_create_fallback_analysis(m) : m \in Msgs}

\* What the Interviewer can return for Analysis a.
Utterances(a) ==
    {InterviewerProcess(a, "ok", text) : text \in LMTexts}
        \cup {InterviewerProcess(a, "gateway_error", "")}

\* The latest call returned the generic error.
GenericError ==
    Returned /\ ret.kind \in {"observer_error", "interviewer_error"}

\* The Analyses a retry of the failed call can receive again: the one of
\* the failed call when the Interviewer raised, any when the Observer
\* raised before returning one.
RetryAnalyses ==
    IF ret.kind = "interviewer_error" THEN {analysis} ELSE Analyses

\* C36: retrying is safe: after a process_message call that returned the
\* generic error (Observer or Interviewer raised), a retry with the same
\* user_message that receives the same Analysis and succeeds leaves the
\* session state (turns, candidate info, difficulty, counters, topics,
\* skills, gaps, is_active) that one successful call from the state before
\* the failed call leaves.
C36_RetryIsSafe ==
    \* a call that succeeds leaves ProcessOnce of the state it began in
    /\ (Returned /\ ret.kind \in {"response", "response_limit", "stop_ack"}) =>
          \E out \in Utterances(analysis) :
             state = ProcessOnce(pre, user_message, analysis, out)
    \* begun in the state the failed call left, it leaves the same state
    \* as begun in the state before the failed call
    /\ GenericError =>
          \A a \in RetryAnalyses : \A out \in Utterances(a) :
             ProcessOnce(state, user_message, a, out)
                = ProcessOnce(pre, user_message, a, out)

\* The Interviewer raised in a call that had already written candidate
\* info and a technology list to the state; the retry commits a turn.
C36_Witness ==
    /\ GenericError /\ ret.kind = "interviewer_error"
    /\ state.candidate.technologies # pre.candidate.technologies
    /\ GradeSetInCall
    /\ state.current_difficulty # pre.current_difficulty
    /\ \E out \in Utterances(analysis) :
          Len(ProcessOnce(state, user_message, analysis, out).turns)
              = Len(pre.turns) + 1

\* Turns committed by process_message so far: start() appended turn 1.
CommittedTurns == state.current_turn - 1

Max(a, b) == IF a >= b THEN a ELSE b

\* The session is over and the latest process_message said so.
Terminated == state # NoState /\ ~state.is_active /\ pc = "idle" /\ ret.done

\* C39: every session terminates: if the candidate keeps sending messages
\* and the Observer and Interviewer calls eventually succeed, the session
\* eventually becomes inactive and process_message returns done = true,
\* after at most max(max_turns - 1, 1) committed turns; no step, failed
\* calls included, lowers current_turn.
C39_SessionTerminates ==
    /\ <>Terminated
    /\ [](state # NoState => CommittedTurns <= Max(max_turns - 1, 1))
    /\ [][(state # NoState /\ state' # NoState)
            => state'.current_turn >= state.current_turn]_vars

\* A session that reached its turn limit after the largest number of
\* committed turns and one cancelled call.
C39_Witness ==
    /\ Terminated /\ ret.kind = "response_limit"
    /\ max_turns = MaxTurns
    /\ CommittedTurns = Max(max_turns - 1, 1)
    /\ cancellations = MaxCancellations
====
